---- MODULE Spec2Model ----
(***************************************************************************)
(* Carousel Synthesis Engine (core/generator.py, core/prompts.py,          *)
(* core/semantic_scorer.py): the dual-mode response parser, the hook       *)
(* scorer and the hook-quality retry loop.                                 *)
(*                                                                         *)
(* Text model.  A string is modelled by what the code asks of it.  A line  *)
(* is a record                                                             *)
(*    kind    - the class of the stripped line, which decides every string *)
(*              test the parser makes on it (startswith, isupper, `in`)    *)
(*    id      - tells apart two lines of the same class                    *)
(*    q       - the line carries markup that _clean_text removes (quotes,  *)
(*              bold markers), so cleaning changes the string              *)
(*    w       - len(line.split()), the whitespace-separated word count     *)
(*    payload - for the one-line JSON serialization of a slide list, the   *)
(*              texts it embeds; <<>> for every other line                 *)
(* A slide text is the sequence of the lines that _clean_text joins with   *)
(* a double line break.                                                    *)
(***************************************************************************)
EXTENDS Integers, Sequences, FiniteSets, TLC

\* ------------------------------------------------------------------ bounds
MaxLines == 3
MaxRoundLines == 2
MaxItems == 2
MaxEntries == 3
MaxSlides == 4
MaxPhotos == 3
MaxCount == 2
MaxDownloads == 54
MaxHookLines == 16
MaxTitleLines == 3
MaxBodyLines == 22
MaxCalls == 2
MaxDay == 2
\* the largest batch (args.count) of the generation command
MaxBatch == 4
\* the most upsert_post calls of one run
MaxUpserts == 2
\* the recommendations of an account and the apply_approved calls of one run
MaxRecs == 2
MaxApplies == 3
\* the words and the lines of a slide text, and the width of a space
MaxWords == 4
MaxTextLines == 2
SpaceWidth == 20
ClonedSlideCount == 6
\* the image prompts the cloned format's template holds
ClonedImagePrompts == 2

\* ---------------------------------------------------------- line predicates
Ln(k, i, q, w) == [kind |-> k, id |-> i, q |-> q, w |-> w, payload |-> <<>>]

RECURSIVE SeqSum(_)
SeqSum(s) == IF s = <<>> THEN 0 ELSE Head(s) + SeqSum(Tail(s))

\* len(text.split()) of a slide text
word_count(text) == SeqSum([i \in 1..Len(text) |-> text[i].w])

\* `not line.strip()`
is_blank(l) == l.kind = "blank"

\* line.lower().startswith(('tip ', 'step ', 'habit ', 'script '))
starts_with_prefix(l) == l.kind = "tip"

\* line.lower().startswith('save this')
starts_with_save_this(l) == l.kind = "cta"

\* line.isupper()
is_upper(l) == l.kind = "upper"

\* line.lower().startswith('slide') or line.startswith('#')
is_meta(l) == l.kind = "meta"

RECURSIVE line_has_placeholder(_)
\* any of the five placeholder patterns is a substring of the lowered text
line_has_placeholder(l) ==
    \/ l.kind = "placeholder"
    \/ /\ l.kind = "json"
       /\ \E i \in 1..Len(l.payload) :
            \E j \in 1..Len(l.payload[i]) : line_has_placeholder(l.payload[i][j])

has_placeholder_text(text) == \E i \in 1..Len(text) : line_has_placeholder(text[i])

RECURSIVE is_cta(_)
\* substring test against the eight phrases of _CTA_MARKERS
is_cta(l) ==
    \/ l.kind \in {"cta", "ctamid"}
    \/ /\ l.kind = "json"
       /\ \E i \in 1..Len(l.payload) :
            \E j \in 1..Len(l.payload[i]) : is_cta(l.payload[i][j])

text_is_cta(text) == \E i \in 1..Len(text) : is_cta(text[i])

\* recognised prefix, or a colon after at most 3 words and 30 characters;
\* the serialization of an object starts with {"slides": and so has one
is_category_start(l) == l.kind \in {"tip", "label", "json"}

\* ------------------------------------------------------------- _clean_text
\* one line with quotes and bold markers removed
clean_line(l) == [l EXCEPT !.q = FALSE]

\* a line that is nothing but markup cleans to the empty string
cleans_to_empty(l) == is_blank(l) \/ l.kind = "junk"

RECURSIVE clean_text(_)
clean_text(ls) ==
    IF ls = <<>> THEN <<>>
    ELSE IF cleans_to_empty(Head(ls)) THEN clean_text(Tail(ls))
    ELSE <<clean_line(Head(ls))>> \o clean_text(Tail(ls))

\* ------------------------------------------------------- meta-markup strip
RECURSIVE trim_left(_)
trim_left(ls) ==
    IF ls # <<>> /\ is_blank(Head(ls)) THEN trim_left(Tail(ls)) ELSE ls

RECURSIVE trim_right(_)
trim_right(ls) ==
    IF ls # <<>> /\ is_blank(ls[Len(ls)])
    THEN trim_right(SubSeq(ls, 1, Len(ls) - 1)) ELSE ls

BlankLine == Ln("blank", 0, FALSE, 0)

\* the five substitutions blank out heading and separator lines; strip()
\* drops the blank lines at both ends; split('\n') of '' is ['']
strip_meta(ls) ==
    LET blanked == [i \in 1..Len(ls) |->
                      IF ls[i].kind = "heading" THEN BlankLine ELSE ls[i]]
        trimmed == trim_right(trim_left(blanked))
    IN  IF trimmed = <<>> THEN <<BlankLine>> ELSE trimmed

\* ---------------------------------------------------------------- formats
ProvenFormats == {"scripts", "boring_habits", "how_to"}

BuiltinFormats == {"habit_list", "step_guide"} \cup ProvenFormats

\* one externally registered format with is_cloned_format set
ClonedFormats == {"cloned"}

Formats == BuiltinFormats \cup ClonedFormats

\* the formats whose reply is first read as a structured object
uses_structured(fmt) == fmt \in ProvenFormats \/ fmt \in ClonedFormats

\* -------------------------------------------------------- canned closers
CTA_OPTIONS ==
    << Ln("cta",    0 - 1, FALSE, 13),
       Ln("ctamid", 0 - 2, FALSE, 3),
       Ln("ctamid", 0 - 3, FALSE, 3),
       Ln("ctamid", 0 - 4, FALSE, 8),
       Ln("ctamid", 0 - 5, FALSE, 8),
       Ln("ctamid", 0 - 6, FALSE, 6),
       Ln("cta",    0 - 7, FALSE, 5) >>

\* random.choice(CTA_OPTIONS), the choice r made by the caller of the model
random_cta(r) == <<CTA_OPTIONS[r]>>

\* f"tip {len(slides)}\n\nexplanation here"
placeholder_item(k) ==
    << Ln("tip", 0 - k, FALSE, 2), Ln("placeholder", 0, FALSE, 2) >>

\* ------------------------------------------------------- heuristic parsing
hook_candidate(l) ==
    /\ ~is_blank(l)
    /\ ~starts_with_prefix(l)
    /\ ~starts_with_save_this(l)
    /\ ~is_upper(l)

\* index of the first line that can be the hook, 0 when there is none
find_hook(lines) ==
    IF \E i \in 1..Len(lines) : hook_candidate(lines[i])
    THEN CHOOSE i \in 1..Len(lines) :
            /\ hook_candidate(lines[i])
            /\ \A k \in 1..(i - 1) : ~hook_candidate(lines[k])
    ELSE 0

\* the format-dependent hook synthesised when no line qualifies
fallback_hook(fmt) ==
    IF fmt = "habit_list" THEN <<Ln("fallback", 1, FALSE, 7)>>
    ELSE IF fmt = "boring_habits" THEN <<Ln("fallback", 2, FALSE, 8)>>
    ELSE IF fmt = "scripts" THEN <<Ln("fallback", 3, FALSE, 5)>>
    ELSE IF fmt = "how_to" THEN <<Ln("fallback", 4, FALSE, 4)>>
    ELSE <<Ln("fallback", 5, FALSE, 6)>>

extract_hook(lines, fmt) ==
    LET h == find_hook(lines)
    IN  IF h = 0 THEN clean_text(fallback_hook(fmt))
        ELSE clean_text(<<lines[h]>>)

\* index of the next non-blank line at or after k, Len + 1 when none
RECURSIVE next_non_blank(_, _)
next_non_blank(lines, k) ==
    IF k <= Len(lines) /\ is_blank(lines[k])
    THEN next_non_blank(lines, k + 1) ELSE k

peek_ends_item(lines, j) ==
    LET k == next_non_blank(lines, j + 1)
    IN  /\ k <= Len(lines)
        /\ (is_category_start(lines[k]) \/ is_cta(lines[k]))

\* the inner while loop: the continuation lines of the item that starts
\* before index j, and the index at which collection stopped
RECURSIVE collect_item(_, _, _)
collect_item(lines, j, acc) ==
    IF j > Len(lines) THEN [tip_lines |-> acc, j |-> j]
    ELSE IF is_blank(lines[j])
    THEN IF peek_ends_item(lines, j)
         THEN [tip_lines |-> acc, j |-> j]
         ELSE collect_item(lines, j + 1, acc)
    ELSE IF is_cta(lines[j]) \/ is_meta(lines[j]) \/ is_category_start(lines[j])
    THEN [tip_lines |-> acc, j |-> j]
    ELSE collect_item(lines, j + 1, Append(acc, lines[j]))

\* the outer for loop over the lines, from index i on
RECURSIVE scan_items(_, _, _, _, _, _)
scan_items(lines, hook_text, n, i, skip, tips) ==
    IF i > Len(lines) THEN tips
    ELSE IF i < skip THEN scan_items(lines, hook_text, n, i + 1, skip, tips)
    ELSE IF is_blank(lines[i]) \/ is_meta(lines[i])
    THEN scan_items(lines, hook_text, n, i + 1, skip, tips)
    ELSE IF <<lines[i]>> = hook_text
    THEN scan_items(lines, hook_text, n, i + 1, i + 1, tips)
    ELSE IF is_cta(lines[i]) THEN tips
    ELSE IF ~is_category_start(lines[i])
    THEN scan_items(lines, hook_text, n, i + 1, skip, tips)
    ELSE LET c   == collect_item(lines, i + 1, <<lines[i]>>)
             tip == clean_text(c.tip_lines)
         IN  IF tip # <<>> /\ tip # hook_text
             THEN IF Len(tips) + 1 >= n
                  THEN Append(tips, tip)
                  ELSE scan_items(lines, hook_text, n, i + 1, c.j, Append(tips, tip))
             ELSE scan_items(lines, hook_text, n, i + 1, skip, tips)

\* the first line holding a call-to-action phrase, as a list of 0 or 1 texts
find_cta(lines) ==
    LET hits == {i \in 1..Len(lines) :
                    is_cta(lines[i]) /\ clean_text(<<lines[i]>>) # <<>>}
    IN  IF hits = {} THEN <<>>
        ELSE <<clean_text(<<lines[CHOOSE i \in hits : \A k \in hits : i <= k]>>)>>

\* the list left as found, without the fill-up loop
pad_slides_none(slides, target, r) == slides

\* the while loop that fills the list up to target_slides
RECURSIVE pad_slides(_, _, _)
pad_slides(slides, target, r) ==
    IF Len(slides) >= target THEN slides
    ELSE IF Len(slides) < target - 1
    THEN pad_slides(Append(slides, placeholder_item(Len(slides))), target, r)
    ELSE pad_slides(Append(slides, random_cta(r)), target, r)

\* slides[:target_slides]
truncate(slides, target) ==
    SubSeq(slides, 1, IF Len(slides) < target THEN Len(slides) ELSE target)

parse_heuristic(raw_lines, fmt, n, r) ==
    LET lines     == strip_meta(raw_lines)
        hook_text == extract_hook(lines, fmt)
        tips      == scan_items(lines, hook_text, n, 1, 1, <<>>)
        found     == <<hook_text>> \o tips \o find_cta(lines)
    IN  truncate(pad_slides(found, n + 2, r), n + 2)

\* ------------------------------------------------------ structured parsing
\* A raw model reply: what re.search(r'\{.*\}') and json.loads make of it
\* (json: "none" no brace pair, "bad" undecodable, "obj" an object), the
\* object's slides member (slides_key: "absent", "null", "list"; entries,
\* each with or without a text member), and the reply read as lines.
Raw(j, k, es, ls) == [json |-> j, slides_key |-> k, entries |-> es, lines |-> ls]

Entry(t) == [has_text |-> TRUE, text |-> t]

NoTextEntry == [has_text |-> FALSE, text |-> <<>>]

Result(st, e, sl) == [status |-> st, exc |-> e, slides |-> sl]

\* the structured path with the loop over data["slides"] starting one late
parse_structured_skip_first(raw) ==
    IF raw.json # "obj" \/ raw.slides_key # "list" \/ raw.entries = <<>>
    THEN Result("fallback", "none", <<>>)
    ELSE Result("ok", "none",
                [i \in 1..(Len(raw.entries) - 1) |-> raw.entries[i + 1].text])

\* the try block of the structured path; status "fallback" stands for
\* falling through to the text parsing below it
parse_structured(raw) ==
    IF raw.json = "none" THEN Result("fallback", "none", <<>>)
    ELSE IF raw.json = "bad" THEN Result("fallback", "JSONDecodeError", <<>>)
    ELSE IF raw.slides_key = "null" THEN Result("raise", "TypeError", <<>>)
    ELSE LET entries == IF raw.slides_key = "absent" THEN <<>> ELSE raw.entries
         IN  IF \E i \in 1..Len(entries) : ~entries[i].has_text
             THEN Result("raise", "KeyError", <<>>)
             ELSE LET slides == [i \in 1..Len(entries) |-> entries[i].text]
                  IN  IF \E i \in 1..Len(slides) : has_placeholder_text(slides[i])
                      THEN Result("fallback", "none", <<>>)
                      ELSE Result("ok", "none", slides)

parse_claude_response(raw, fmt, n, r) ==
    LET st == IF uses_structured(fmt) THEN parse_structured(raw)
              ELSE Result("fallback", "none", <<>>)
    IN  IF st.status = "fallback"
        THEN Result("ok", "none", parse_heuristic(raw.lines, fmt, n, r))
        ELSE st

\* json.dumps({"slides": [{"text": t} for t in slides]}): one line, which
\* holds every text, decodes to the object it was made from
json_line(slides) ==
    [kind |-> "json", id |-> 0, q |-> FALSE,
     w |-> SeqSum([i \in 1..Len(slides) |-> 1 + word_count(slides[i])]) + 1,
     payload |-> slides]

serialize(slides) ==
    Raw("obj", "list", [i \in 1..Len(slides) |-> Entry(slides[i])],
        <<json_line(slides)>>)

\* ------------------------------------------------------------ hook scoring
\* SemanticHookScorer.score_hook: the four dimensions, in scoring order
Dimensions == <<"curiosity_gap", "actionability", "specificity", "scroll_stop">>

\* number of REFERENCE_EXAMPLES of a dimension
reference_count(d) ==
    IF d \in {"curiosity_gap", "actionability"} THEN 11 ELSE 8

\* the reference exemplars of a dimension, in list order
reference_examples(d) ==
    [k \in 1..reference_count(d) |-> [kind |-> "reference", dim |-> d, k |-> k]]

\* the text whose embedding is looked up for a hook: hook.lower()
hook_key(hook_text) == [kind |-> "hook", text |-> hook_text]

RECURSIVE concat_all(_)
concat_all(ss) == IF ss = <<>> THEN <<>> ELSE Head(ss) \o concat_all(Tail(ss))

\* the _get_embedding lookups of one semantic scoring, in call order
\* (score_hook and get_dimension_breakdown walk the same texts)
embedding_lookups(hook_text) ==
    concat_all([i \in 1..Len(Dimensions) |->
                  <<hook_key(hook_text)>> \o reference_examples(Dimensions[i])])

\* the highest cosine similarity to an exemplar, in hundredths, mapped to
\* points; max_similarity starts at 0.0, so the lowest band is 1
score_dimension(max_similarity) ==
    IF max_similarity >= 45 THEN 5
    ELSE IF max_similarity >= 35 THEN 4
    ELSE IF max_similarity >= 28 THEN 3
    ELSE IF max_similarity >= 20 THEN 2
    ELSE 1

\* a word after the first starts with a capital letter
has_mid_capital(hook_text) ==
    \E i \in 1..Len(hook_text) :
        \/ hook_text[i].kind = "titled"
        \/ hook_text[i].kind = "upper" /\ hook_text[i].w > 1

Issue(k, d, n) == [kind |-> k, dim |-> d, n |-> n]

RECURSIVE dimension_feedback(_, _)
\* one feedback line per dimension that scored below 3, in scoring order
dimension_feedback(sims, i) ==
    IF i > Len(Dimensions) THEN <<>>
    ELSE (IF score_dimension(sims[i]) < 3
          THEN <<Issue("dimension", Dimensions[i], score_dimension(sims[i]))>>
          ELSE <<>>) \o dimension_feedback(sims, i + 1)

\* SemanticHookScorer.score_hook: (total, feedback)
semantic_score_hook(hook_text, sims) ==
    [total    |-> SeqSum([i \in 1..Len(Dimensions) |-> score_dimension(sims[i])]),
     feedback |-> dimension_feedback(sims, 1)
                    \o (IF has_mid_capital(hook_text)
                        THEN <<Issue("style", "none", 0)>> ELSE <<>>)]

\* SemanticHookScorer.get_dimension_breakdown
get_dimension_breakdown(sims) ==
    [i \in 1..Len(Dimensions) |-> score_dimension(sims[i])]

ScoreResult(t, s, g, p, f) ==
    [total |-> t, scores |-> s, grade |-> g, passed |-> p, feedback |-> f]

grade_of(total) ==
    IF total >= 18 THEN "A"
    ELSE IF total >= 16 THEN "B"
    ELSE IF total >= 14 THEN "C"
    ELSE "F"

\* the semantic part of _score_hook: total, breakdown, grade, gate
semantic_result(hook_text, min_score, sims) ==
    LET sem == semantic_score_hook(hook_text, sims)
    IN  ScoreResult(sem.total, get_dimension_breakdown(sims),
                    grade_of(sem.total), sem.total >= min_score, sem.feedback)

\* the word-limit result of _score_hook
word_limit_result(hook_text) ==
    ScoreResult(0, <<>>, "F", FALSE,
                <<Issue("word_limit", "none", word_count(hook_text))>>)

\* the scorer with the word limit taken off
score_hook_no_limit(hook_text, min_score, max_words, sims) ==
    semantic_result(hook_text, min_score, sims)

\* BaseContentGenerator._score_hook
score_hook(hook_text, min_score, max_words, sims) ==
    IF word_count(hook_text) > max_words
    THEN word_limit_result(hook_text)
    ELSE semantic_result(hook_text, min_score, sims)

\* whether _score_hook reaches the semantic scorer at all
calls_scorer(hook_text, max_words) == word_count(hook_text) <= max_words

RECURSIVE first_missing(_, _)
\* the first looked-up text that is not in the lru_cache, <<>> if none
first_missing(lookups, cache) ==
    IF lookups = <<>> THEN <<>>
    ELSE IF Head(lookups) \notin cache THEN <<Head(lookups)>>
    ELSE first_missing(Tail(lookups), cache)

Range(s) == {s[i] : i \in 1..Len(s)}

\* =================================================================== state
VARIABLES
    content_text,     \* the raw model reply handed to the parser
    content_format,   \* the format name of the request
    num_items,        \* expected_item_count
    parsed,           \* what _parse_claude_response returned
    reparsed,         \* what it returned for the serialization of parsed
    phase,            \* "input", "parsed", "reparsed"
    hook_text,            \* the text handed to _score_hook
    min_hook_score,       \* quality_overrides.min_hook_score
    max_words_per_slide,  \* quality_overrides.max_words_per_slide
    embedding,            \* per hook, the highest similarity to an exemplar
                          \* of each dimension, in hundredths
    embedding_status,     \* HTTP status the embedding endpoint answers with
    embed_cache,          \* texts held by the lru_cache of _get_embedding
    embed_requests,       \* texts posted to the endpoint by the last scoring
    score_result,         \* what _score_hook returned
    pc,                   \* position in _score_hook / the retry loop
    hook_strategy,    \* "viral" or "template"
    attempt,          \* loop index of _generate_content_with_claude
    max_attempts,     \* its range
    score_feedback,   \* the failed result carried into the next prompt
    prompt,           \* the user prompt of the current attempt
    slides,           \* the slides of the current attempt
    model_calls,      \* chat_completion calls issued so far
    best_seen         \* history: the highest total scored so far and the
                      \* slides of the attempt that scored it

parseVars == <<content_text, content_format, num_items, parsed, reparsed, phase>>

scoreVars == <<hook_text, min_hook_score, max_words_per_slide, embedding,
               embedding_status, embed_cache, embed_requests, score_result, pc>>

loopVars == <<hook_strategy, attempt, max_attempts, score_feedback, prompt,
              slides, model_calls, best_seen>>

VARIABLES
    image_path,             \* which loop acquires the generated images:
                            \* "generate" or "_generate_gemini"
    num_prompts,            \* len(image_prompts) / len(prompts)
    image_num_slides,       \* num_slides handed to _generate_gemini
    slide_index,            \* 1-based index of the next slide to generate
    reference_image_bytes,  \* the reference image, "none" until it is set
    images,                 \* the images collected so far
    image_calls,            \* history: the generate_image calls issued
    image_result            \* how the acquisition ended

imageVars == <<image_path, num_prompts, image_num_slides, slide_index,
               reference_image_bytes, images, image_calls, image_result>>

VARIABLES
    stock_pc,        \* position in _generate_pexels
    stock_count,     \* num_slides, the number of photos wanted
    photos,          \* the photo ids selected so far
    used_ids,        \* history["used_ids"] of the PexelsClient
    max_history,     \* history["max_history"]
    history_file,    \* the history file on disk
    photo_images,    \* the downloaded images, by photo id
    download_index,  \* position in photos[:num_slides]
    queries,         \* history: the searches issued, in order
    last_op,         \* history: the last network or file operation
    last_download    \* history: id of the last photo download_photo returned

stockVars == <<stock_pc, stock_count, photos, used_ids, max_history,
               history_file, photo_images, download_index, queries, last_op,
               last_download>>

VARIABLES
    is_hook,         \* _add_text_overlay: hook or call-to-action slide
    hook_lines,      \* len(lines), the wrapped lines of a hook
    title_lines,     \* len(title_lines) of a content slide
    body_lines,      \* len(body_lines) of a content slide
    total_height,    \* height of the text block
    start_y,         \* the row the first line is drawn at
    layout_pc        \* "wrapped" before the block is placed, "drawn" after

layoutVars == <<is_hook, hook_lines, title_lines, body_lines, total_height,
                start_y, layout_pc>>

VARIABLES
    gen_pc,          \* position in generate()
    request,         \* the arguments of the generate() call
    gen_items,       \* num_items after validation and capping
    gen_num_slides,  \* len(content["slides"])
    gen_images,      \* number of images the acquisition delivered
    dirs,            \* the output directories on disk
    files,           \* the files on disk, each with the call that wrote it
    fs_before,       \* history: dirs and files when the call started
    call_no,         \* history: number of the generate() call
    today,           \* datetime.now(), as a day number
    artifacts,       \* history: directory and files of each successful call
    gen_result       \* what generate() returned or raised

genVars == <<gen_pc, request, gen_items, gen_num_slides, gen_images, dirs,
             files, fs_before, call_no, today, artifacts, gen_result>>

\* ---- further state
VARIABLES
    ex_dimension,  \* the dimension score_dimension is called for
    ex_hook,  \* the hook: one of the dimension's reference exemplars
    similarity,  \* cosine similarity of the service's vectors for two different texts, in hundredths
    ex_score  \* what score_dimension returned, 0 before the call

exemplarVars == <<ex_dimension, ex_hook, similarity, ex_score>>

VARIABLES
    svc_pc,  \* the call site generate() is at
    svc_path,  \* "stock" for the proven formats, "generated" for the others
    svc_log,  \* history: the service calls made, with their outcomes
    svc_fallbacks,  \* the call sites whose failure was replaced by a fallback value
    svc_result  \* how generate() ended: "ok", "error" (error dict) or "raised"

serviceVars == <<svc_pc, svc_path, svc_log, svc_fallbacks, svc_result>>

VARIABLES
    cli_pc,  \* where main() is
    cli_count,  \* args.count, the size of the batch
    cli_results,  \* history: how each item of the batch ended
    output_dirs,  \* the number of entries of output_dirs
    exit_status  \* the exit status of the process, -1 while it runs

cliVars == <<cli_pc, cli_count, cli_results, output_dirs, exit_status>>

VARIABLES
    posts,  \* the rows of the posts table
    posts_before,  \* history: the rows before the last upsert_post call
    db_call,  \* history: the arguments of the last upsert_post call
    db_calls,  \* the number of upsert_post calls made
    db_open  \* TRUE while the database is open

dbVars == <<posts, posts_before, db_call, db_calls, db_open>>

VARIABLES
    proposed_change,  \* recommendations table: the proposed_change column by id
    approved,  \* the ids with status 'approved', ordered by approved_at
    context,  \* the performance context file
    merge_count,  \* history: how often each recommendation's change was merged
    had_list,  \* history: FALSE when the file first found had no approved_recommendations
    apply_calls  \* the number of apply_approved calls made

recVars == <<proposed_change, approved, context, merge_count, had_list, apply_calls>>

VARIABLES
    wrap_pc,  \* "input" before the overlay is drawn, "done" after
    wrap_words,  \* the words of the slide text, each with its rendered width
    wrap_breaks,  \* the word positions after which the text holds a newline
    wrap_is_hook,  \* is_hook of _add_text_overlay
    wrapped  \* the lines drawn, top to bottom

wrapVars == <<wrap_pc, wrap_words, wrap_breaks, wrap_is_hook, wrapped>>

extVars == <<exemplarVars, serviceVars, cliVars, dbVars, recVars, wrapVars>>

\* what the exemplar actions leave alone
exemplarFrame ==
    <<parseVars, scoreVars, loopVars, imageVars, stockVars, layoutVars, genVars, serviceVars, cliVars, dbVars, recVars, wrapVars>>

\* what the service actions leave alone
serviceFrame ==
    <<parseVars, scoreVars, loopVars, imageVars, stockVars, layoutVars, genVars, exemplarVars, cliVars, dbVars, recVars, wrapVars>>

\* what the cli actions leave alone
cliFrame ==
    <<parseVars, scoreVars, loopVars, imageVars, stockVars, layoutVars, genVars, exemplarVars, serviceVars, dbVars, recVars, wrapVars>>

\* what the db actions leave alone
dbFrame ==
    <<parseVars, scoreVars, loopVars, imageVars, stockVars, layoutVars, genVars, exemplarVars, serviceVars, cliVars, recVars, wrapVars>>

\* what the rec actions leave alone
recFrame ==
    <<parseVars, scoreVars, loopVars, imageVars, stockVars, layoutVars, genVars, exemplarVars, serviceVars, cliVars, dbVars, wrapVars>>

\* what the wrap actions leave alone
wrapFrame ==
    <<parseVars, scoreVars, loopVars, imageVars, stockVars, layoutVars, genVars, exemplarVars, serviceVars, cliVars, dbVars, recVars>>

\* ---- end of further state

\* text layout and generate()
tailVars == <<layoutVars, genVars, extVars>>

\* everything but the parser, the scorer and the retry loop
restVars == <<imageVars, stockVars, tailVars>>

vars == <<parseVars, scoreVars, loopVars, restVars>>

NoResult == Result("none", "none", <<>>)

\* score_result before _score_hook has returned
NoScore == ScoreResult(0, <<>>, "none", FALSE, <<>>)

\* score_feedback = None
NoFeedback == [given |-> FALSE, result |-> NoScore, min_score |-> 0]

\* retry_warning = ""
NoWarning == [given |-> FALSE, total |-> 0, min_score |-> 0, feedback |-> <<>>]

\* the prompt before one was built
NoPrompt == [builder |-> "none", retry_warning |-> NoWarning]

\* a best-seen record with no attempt scored yet
NoBest == [total |-> -1, slides |-> <<>>]

\* the parser at rest
IdleParse ==
    /\ content_text = [json |-> "none", slides_key |-> "absent",
                       entries |-> <<>>, lines |-> <<>>]
    /\ parsed = NoResult
    /\ reparsed = NoResult
    /\ phase = "idle"

\* the scorer at rest
IdleScore ==
    /\ hook_text = <<>>
    /\ min_hook_score = 16
    /\ max_words_per_slide = 20
    /\ embedding = [i \in {0} |-> <<0, 0, 0, 0>>]
    /\ embedding_status = 200
    /\ embed_cache = {}
    /\ embed_requests = {}
    /\ score_result = NoScore
    /\ pc = "idle"

\* the retry loop at rest
IdleLoop ==
    /\ hook_strategy = "template"
    /\ attempt = 0
    /\ max_attempts = 0
    /\ score_feedback = NoFeedback
    /\ prompt = NoPrompt
    /\ slides = <<>>
    /\ model_calls = 0
    /\ best_seen = NoBest

\* generate_image returned None
NoImage == "none"

\* an acquisition that has not ended / has not failed
ImageResult(st, k) == [status |-> st, slide |-> k]

\* image generation at rest
IdleImages ==
    /\ image_path = "none"
    /\ num_prompts = 0
    /\ image_num_slides = 0
    /\ slide_index = 0
    /\ reference_image_bytes = NoImage
    /\ images = <<>>
    /\ image_calls = <<>>
    /\ image_result = ImageResult("idle", 0)

\* the history as json.dump writes it and json.load reads it
History(ids, cap) == [used_ids |-> ids, max_history |-> cap]

\* no history file on disk
NoFile == [exists |-> FALSE, content |-> History(<<>>, 0)]

FileOf(h) == [exists |-> TRUE, content |-> h]

\* stock-photo acquisition at rest
IdleStock ==
    /\ stock_pc = "idle"
    /\ stock_count = 0
    /\ photos = <<>>
    /\ used_ids = <<>>
    /\ max_history = 50
    /\ history_file = NoFile
    /\ photo_images = <<>>
    /\ download_index = 0
    /\ queries = <<>>
    /\ last_op = "none"
    /\ last_download = 0

\* no text block being placed
IdleLayout ==
    /\ is_hook = FALSE
    /\ hook_lines = 0
    /\ title_lines = 0
    /\ body_lines = 0
    /\ total_height = 0
    /\ start_y = 0
    /\ layout_pc = "idle"

NoRequest == [topic |-> <<>>, content_format |-> "none", num_items |-> 0]

Disk(ds, fs) == [dirs |-> ds, files |-> fs]

\* no generate() call under way, nothing on disk
IdleGen ==
    /\ gen_pc = "idle"
    /\ request = NoRequest
    /\ gen_items = 0
    /\ gen_num_slides = 0
    /\ gen_images = 0
    /\ dirs = {}
    /\ files = {}
    /\ fs_before = Disk({}, {})
    /\ call_no = 0
    /\ today = 0
    /\ artifacts = <<>>
    /\ gen_result = "none"

\* the parser, the scorer and the retry loop at rest
IdleCore ==
    /\ IdleParse
    /\ content_format = "habit_list"
    /\ num_items = 0
    /\ IdleScore
    /\ IdleLoop

\* ---- further state at rest
\* no exemplar being scored
IdleExemplar ==
    /\ ex_dimension = "none"
    /\ ex_hook = [custom |-> FALSE, dim |-> "none", k |-> 0, capital |-> FALSE]
    /\ similarity = [variant |-> 0, other |-> 0]
    /\ ex_score = 0

\* no request calling a service
IdleService ==
    /\ svc_pc = "idle"
    /\ svc_path = "none"
    /\ svc_log = <<>>
    /\ svc_fallbacks = {}
    /\ svc_result = "none"

\* no generation command running
IdleCli ==
    /\ cli_pc = "idle"
    /\ cli_count = 0
    /\ cli_results = <<>>
    /\ output_dirs = 0
    /\ exit_status = -1

\* no analytics database open
IdleDb ==
    /\ posts = {}
    /\ posts_before = {}
    /\ db_call = <<>>
    /\ db_calls = 0
    /\ db_open = FALSE

\* no recommendations
IdleRec ==
    /\ proposed_change = <<>>
    /\ approved = <<>>
    /\ context = [exists |-> FALSE]
    /\ merge_count = <<>>
    /\ had_list = TRUE
    /\ apply_calls = 0

\* no text being wrapped
IdleWrap ==
    /\ wrap_pc = "idle"
    /\ wrap_words = <<>>
    /\ wrap_breaks = {}
    /\ wrap_is_hook = FALSE
    /\ wrapped = <<>>

IdleExt == IdleExemplar /\ IdleService /\ IdleCli /\ IdleDb /\ IdleRec /\ IdleWrap

\* everything at rest but the exemplar state
exemplarAlone ==
    IdleCore /\ IdleImages /\ IdleStock /\ IdleLayout /\ IdleGen /\ IdleService /\ IdleCli /\ IdleDb /\ IdleRec /\ IdleWrap

\* everything at rest but the service state
serviceAlone ==
    IdleCore /\ IdleImages /\ IdleStock /\ IdleLayout /\ IdleGen /\ IdleExemplar /\ IdleCli /\ IdleDb /\ IdleRec /\ IdleWrap

\* everything at rest but the cli state
cliAlone ==
    IdleCore /\ IdleImages /\ IdleStock /\ IdleLayout /\ IdleGen /\ IdleExemplar /\ IdleService /\ IdleDb /\ IdleRec /\ IdleWrap

\* everything at rest but the db state
dbAlone ==
    IdleCore /\ IdleImages /\ IdleStock /\ IdleLayout /\ IdleGen /\ IdleExemplar /\ IdleService /\ IdleCli /\ IdleRec /\ IdleWrap

\* everything at rest but the rec state
recAlone ==
    IdleCore /\ IdleImages /\ IdleStock /\ IdleLayout /\ IdleGen /\ IdleExemplar /\ IdleService /\ IdleCli /\ IdleDb /\ IdleWrap

\* everything at rest but the wrap state
wrapAlone ==
    IdleCore /\ IdleImages /\ IdleStock /\ IdleLayout /\ IdleGen /\ IdleExemplar /\ IdleService /\ IdleCli /\ IdleDb /\ IdleRec

\* ---- end of further state at rest

IdleTail == IdleLayout /\ IdleGen /\ IdleExt

IdleRest == IdleImages /\ IdleStock /\ IdleTail

\* ------------------------------------------------------------ parser inputs
Alphabet ==
    { BlankLine,
      Ln("heading", 1, FALSE, 3),
      Ln("plain", 1, FALSE, 3),
      Ln("plain", 2, TRUE, 3),
      Ln("upper", 1, FALSE, 3),
      Ln("tip", 1, FALSE, 3),
      Ln("label", 1, FALSE, 3),
      Ln("label", 2, TRUE, 3),
      Ln("cta", 1, FALSE, 3),
      Ln("ctamid", 1, FALSE, 3),
      Ln("meta", 1, FALSE, 3) }

SeqsUpTo(S, n) == UNION {[1..k -> S] : k \in 0..n}

TextInputs(n) == {Raw("none", "absent", <<>>, ls) : ls \in SeqsUpTo(Alphabet, n)}

\* slide objects of a structured reply
EntrySet ==
    { Entry(<<Ln("plain", 1, FALSE, 3)>>),
      Entry(<<Ln("tip", 1, FALSE, 3), Ln("plain", 3, FALSE, 3)>>),
      Entry(<<Ln("cta", 1, FALSE, 3)>>),
      Entry(<<Ln("tip", 2, FALSE, 3), Ln("placeholder", 0, FALSE, 2)>>),
      NoTextEntry }

\* the line reading of a reply that holds an object
SampleLines ==
    { <<Ln("plain", 1, FALSE, 3), Ln("tip", 1, FALSE, 3), Ln("cta", 1, FALSE, 3)>>,
      <<Ln("junk", 1, TRUE, 1)>> }

JsonInputs ==
    {Raw("bad", "absent", <<>>, ls) : ls \in SampleLines}
    \cup {Raw("obj", k, <<>>, ls) : k \in {"absent", "null"}, ls \in SampleLines}
    \cup {Raw("obj", "list", es, ls) :
            es \in SeqsUpTo(EntrySet, MaxEntries), ls \in SampleLines}

ParseFormats == {"habit_list", "how_to", "cloned"}

\* ---------------------------------------------------------- parser actions
InitParse ==
    /\ content_text \in TextInputs(MaxLines) \cup JsonInputs
    /\ content_format \in ParseFormats
    /\ num_items \in 0..MaxItems
    /\ parsed = NoResult
    /\ reparsed = NoResult
    /\ phase = "input"
    /\ IdleScore
    /\ IdleLoop
    /\ IdleRest

\* one call of _parse_claude_response on the reply
Parse ==
    /\ phase = "input"
    /\ \E r \in 1..Len(CTA_OPTIONS) :
         parsed' = parse_claude_response(content_text, content_format, num_items, r)
    /\ phase' = "parsed"
    /\ UNCHANGED <<content_text, content_format, num_items, reparsed>>
    /\ UNCHANGED <<scoreVars, loopVars, restVars>>

\* the returned list written out as a structured object and parsed again
Reparse ==
    /\ phase = "parsed"
    /\ parsed.status = "ok"
    /\ \E r \in 1..Len(CTA_OPTIONS) :
         reparsed' = parse_claude_response(serialize(parsed.slides),
                                           content_format, num_items, r)
    /\ phase' = "reparsed"
    /\ UNCHANGED <<content_text, content_format, num_items, parsed>>
    /\ UNCHANGED <<scoreVars, loopVars, restVars>>

SpecParse == InitParse /\ [][Parse]_vars

InitRound ==
    /\ content_text \in TextInputs(MaxRoundLines) \cup JsonInputs
    /\ content_format \in ParseFormats
    /\ num_items \in 0..MaxItems
    /\ parsed = NoResult
    /\ reparsed = NoResult
    /\ phase = "input"
    /\ IdleScore
    /\ IdleLoop
    /\ IdleRest

NextRound == Parse \/ Reparse

SpecRound == InitRound /\ [][NextRound]_vars

\* ----------------------------------------------------- well-formed replies
\* defaults.MIN_SLIDES and defaults.MAX_SLIDES, the item counts generate()
\* accepts
MIN_SLIDES == 5
MAX_SLIDES == 10

TipLine(k) == Ln("tip", k, FALSE, 3)

ContLine(k) == Ln("plain", 10 + k, FALSE, 3)

\* the first lines a reply can open with and the parser takes as the hook
HookLines ==
    { Ln("plain", 1, FALSE, 3),
      Ln("plain", 2, TRUE, 3),
      Ln("label", 1, FALSE, 3),
      Ln("label", 2, TRUE, 3),
      Ln("ctamid", 1, FALSE, 3) }

\* a closing line containing 'save this', at its start or further in
SaveThisLines == { Ln("cta", 1, FALSE, 3), Ln("ctamid", 2, FALSE, 4) }

Gap(b) == IF b THEN <<BlankLine>> ELSE <<>>

\* block k: its 'tip k:' line and, when cont[k], one continuation line
RECURSIVE TipBlocks(_, _, _, _, _)
TipBlocks(k, n, cont, between, inside) ==
    IF k > n THEN <<>>
    ELSE <<TipLine(k)>>
         \o (IF cont[k] THEN Gap(inside) \o <<ContLine(k)>> ELSE <<>>)
         \o Gap(between)
         \o TipBlocks(k + 1, n, cont, between, inside)

WellFormed(hook, n, cont, between, inside, last) ==
    <<hook>> \o Gap(between) \o TipBlocks(1, n, cont, between, inside) \o <<last>>

\* which blocks carry a continuation line: every choice for the smallest
\* count, and none, all, the odd ones, the first or the last for the others
ContPatterns(n) ==
    IF n = MIN_SLIDES THEN [1..n -> BOOLEAN]
    ELSE { [k \in 1..n |-> FALSE], [k \in 1..n |-> TRUE],
           [k \in 1..n |-> k % 2 = 1], [k \in 1..n |-> k = 1],
           [k \in 1..n |-> k = n] }

InitWell ==
    /\ num_items \in MIN_SLIDES..MAX_SLIDES
    /\ \E hook \in HookLines, last \in SaveThisLines,
          between \in BOOLEAN, inside \in BOOLEAN,
          cont \in ContPatterns(num_items) :
         content_text = Raw("none", "absent", <<>>,
                            WellFormed(hook, num_items, cont, between, inside, last))
    /\ content_format \in {"habit_list", "how_to"}
    /\ parsed = NoResult
    /\ reparsed = NoResult
    /\ phase = "input"
    /\ IdleScore
    /\ IdleLoop
    /\ IdleRest

SpecWell == InitWell /\ [][Parse]_vars

\* ------------------------------------------------------------ scorer inputs
\* the class of a hook under which the embedding variable files it
embedding_class(text) ==
    IF text # <<>> /\ text[1].id \in DOMAIN embedding THEN text[1].id ELSE 0

\* the highest similarities the endpoint's vectors give the hook
similarities(text) == embedding[embedding_class(text)]

\* hooks of 1 to 51 words, with and without a capital mid-sentence
ScoreHooks ==
    {<<Ln("plain", 21, FALSE, w)>> : w \in {1, 5, 6, 20, 21, 51}}
    \cup {<<Ln("titled", 22, FALSE, w)>> : w \in {5, 21}}

SimVectors ==
    [1..Len(Dimensions) -> {19, 28, 45}]
    \cup {<<20, 27, 34, 35>>, <<44, 45, 100, 0>>}

\* every exemplar already embedded by an earlier scoring
WarmCache == UNION {Range(reference_examples(Dimensions[i])) : i \in 1..Len(Dimensions)}

\* ----------------------------------------------------------- scorer actions
\* the lookups one _score_hook call makes
score_lookups(text) ==
    IF calls_scorer(text, max_words_per_slide) THEN embedding_lookups(text) ELSE <<>>

\* the endpoint answers a non-200 status to a text that has to be fetched
embedding_fails(text) ==
    /\ first_missing(score_lookups(text), embed_cache) # <<>>
    /\ embedding_status # 200

\* the cache and the endpoint over one _score_hook call
EmbedStep(text) ==
    IF embedding_fails(text)
    THEN /\ embed_requests' = Range(first_missing(score_lookups(text), embed_cache))
         /\ embed_cache' = embed_cache
    ELSE /\ embed_requests' = Range(score_lookups(text)) \ embed_cache
         /\ embed_cache' = embed_cache \cup Range(score_lookups(text))

InitScore ==
    /\ hook_text \in ScoreHooks
    /\ min_hook_score \in {0, 16, 20}
    /\ max_words_per_slide \in {5, 20}
    /\ \E v \in SimVectors : embedding = [i \in {0} |-> v]
    /\ embedding_status \in {200, 500}
    /\ embed_cache \in {{}, WarmCache}
    /\ embed_requests = {}
    /\ score_result = NoScore
    /\ pc = "score"
    /\ IdleParse
    /\ content_format = "habit_list"
    /\ num_items = 0
    /\ IdleLoop
    /\ IdleRest

\* one call of _score_hook
ScoreHook ==
    /\ pc = "score"
    /\ EmbedStep(hook_text)
    /\ IF embedding_fails(hook_text)
       THEN /\ score_result' = score_result
            /\ pc' = "error"
       ELSE /\ score_result' = score_hook(hook_text, min_hook_score,
                                          max_words_per_slide, similarities(hook_text))
            /\ pc' = "scored"
    /\ UNCHANGED <<hook_text, min_hook_score, max_words_per_slide, embedding,
                   embedding_status>>
    /\ UNCHANGED <<parseVars, loopVars, restVars>>

SpecScore == InitScore /\ [][ScoreHook]_vars

\* --------------------------------------------------------------- retry loop
\* range(max_attempts) of _generate_content_with_claude, every format at
\* the widest range
max_attempts_flat(strategy, fmt) == 10

\* range(max_attempts) of _generate_content_with_claude
max_attempts_for(strategy, fmt) ==
    IF strategy # "viral" THEN 1
    ELSE IF fmt \in ProvenFormats THEN 3
    ELSE 10

\* score_feedback = score_result; score_feedback["min_score"] = min_hook_score
Feedback(result, min_score) ==
    [given |-> TRUE, result |-> result, min_score |-> min_score]

\* the retry warning _build_dynamic_hook_instruction puts into the prompt:
\* the score, the score needed and one line per feedback item
retry_warning(fb) ==
    IF fb.given
    THEN [given |-> TRUE, total |-> fb.result.total, min_score |-> fb.min_score,
          feedback |-> fb.result.feedback]
    ELSE NoWarning

\* the prompt builders, by format: habit_list and step_guide take the
\* dynamic hook instruction only under the viral strategy, the three
\* structured built-ins always, the blueprint builder never
build_prompt(fmt, strategy, fb) ==
    IF fmt \in {"habit_list", "step_guide"}
    THEN [builder |-> fmt,
          retry_warning |-> IF strategy = "viral" THEN retry_warning(fb)
                            ELSE NoWarning]
    ELSE IF fmt \in ProvenFormats
    THEN [builder |-> fmt, retry_warning |-> retry_warning(fb)]
    ELSE [builder |-> "blueprint", retry_warning |-> NoWarning]

\* the history of the call: the highest total scored so far and the slides
\* of the first attempt that scored it
record_best(best, total, ss) ==
    IF total > best.total THEN [total |-> total, slides |-> ss] ELSE best

\* ----------------------------------------------------------- model replies
HookA == Ln("plain", 31, FALSE, 6)
HookB == Ln("plain", 32, FALSE, 7)
HookLong == Ln("plain", 33, FALSE, 25)

NoCont == [k \in 1..MIN_SLIDES |-> FALSE]

TextReply(hook) ==
    Raw("none", "absent", <<>>,
        WellFormed(hook, MIN_SLIDES, NoCont, TRUE, FALSE, Ln("cta", 1, FALSE, 3)))

ObjectReply(hook) ==
    serialize(<<<<hook>>>> \o [k \in 1..MIN_SLIDES |-> <<TipLine(k)>>]
              \o <<<<Ln("cta", 1, FALSE, 3)>>>>)

\* a reply in prose, a reply holding the object, a reply whose hook is
\* over the word limit, and an object without a slides member
LoopReplies ==
    { TextReply(HookA), TextReply(HookB), ObjectReply(HookB),
      TextReply(HookLong),
      Raw("obj", "absent", <<>>, <<Ln("plain", 34, FALSE, 4)>>) }

High == <<45, 45, 45, 45>>
Mid == <<35, 35, 28, 28>>
Low == <<19, 19, 19, 19>>

\* HookA scores 14, HookB 20, every other text 4
LoopEmbedding == (0 :> Low) @@ (31 :> Mid) @@ (32 :> High)

\* ---------------------------------------------------- retry loop actions
InitLoop ==
    /\ content_format \in Formats \cup {"unsupported"}
    /\ hook_strategy \in {"viral", "template"}
    /\ num_items = MIN_SLIDES
    /\ min_hook_score \in {12, 16}
    /\ max_words_per_slide = 20
    /\ embedding = LoopEmbedding
    /\ embedding_status \in {200, 500}
    /\ embed_cache = {}
    /\ embed_requests = {}
    /\ score_result = NoScore
    /\ hook_text = <<>>
    /\ pc = "start"
    /\ attempt = 0
    /\ max_attempts = 0
    /\ score_feedback = NoFeedback
    /\ prompt = NoPrompt
    /\ slides = <<>>
    /\ model_calls = 0
    /\ best_seen = NoBest
    /\ IdleParse
    /\ IdleRest

\* lines 394-402: the attempt range and score_feedback = None
Start ==
    /\ pc = "start"
    /\ max_attempts' = max_attempts_for(hook_strategy, content_format)
    /\ score_feedback' = NoFeedback
    /\ pc' = "build"
    /\ UNCHANGED <<parseVars, hook_text, min_hook_score, max_words_per_slide,
                   embedding, embedding_status, embed_cache, embed_requests,
                   score_result, hook_strategy, attempt, prompt, slides,
                   model_calls, best_seen>>
    /\ UNCHANGED restVars

\* lines 405-461: the prompt of this attempt, ValueError for a format that
\* is neither built in nor cloned
BuildPrompt ==
    /\ pc = "build"
    /\ IF content_format \in Formats
       THEN /\ prompt' = build_prompt(content_format, hook_strategy, score_feedback)
            /\ pc' = "call"
       ELSE /\ prompt' = prompt
            /\ pc' = "error"
    /\ UNCHANGED <<parseVars, hook_text, min_hook_score, max_words_per_slide,
                   embedding, embedding_status, embed_cache, embed_requests,
                   score_result, hook_strategy, attempt, max_attempts,
                   score_feedback, slides, model_calls, best_seen>>
    /\ UNCHANGED restVars

\* line 464: one chat_completion call, which answers or raises
CallModel ==
    /\ pc = "call"
    /\ model_calls' = model_calls + 1
    /\ \/ /\ content_text' \in LoopReplies
          /\ pc' = "parse"
       \/ /\ content_text' = content_text
          /\ pc' = "error"
    /\ UNCHANGED <<content_format, num_items, parsed, reparsed, phase,
                   hook_text, min_hook_score, max_words_per_slide,
                   embedding, embedding_status, embed_cache, embed_requests,
                   score_result, hook_strategy, attempt, max_attempts,
                   score_feedback, prompt, slides, best_seen>>
    /\ UNCHANGED restVars

\* lines 472-477 and 496-498: parse the reply, take its slides, and either
\* leave the loop (template strategy) or pick the hook to score
ParseReply ==
    /\ pc = "parse"
    /\ \E r \in 1..Len(CTA_OPTIONS) :
         parsed' = parse_claude_response(content_text, content_format, num_items, r)
    /\ IF parsed'.status # "ok"
       THEN /\ pc' = "error"
            /\ UNCHANGED <<slides, hook_text>>
       ELSE /\ slides' = parsed'.slides
            /\ IF hook_strategy # "viral"
               THEN /\ pc' = "done"
                    /\ hook_text' = hook_text
               ELSE IF parsed'.slides = <<>>
               THEN /\ pc' = "error"
                    /\ hook_text' = hook_text
               ELSE /\ pc' = "score"
                    /\ hook_text' = parsed'.slides[1]
    /\ UNCHANGED <<content_text, content_format, num_items, reparsed, phase,
                   min_hook_score, max_words_per_slide, embedding,
                   embedding_status, embed_cache, embed_requests, score_result,
                   hook_strategy, attempt, max_attempts, score_feedback,
                   prompt, model_calls, best_seen>>
    /\ UNCHANGED restVars

\* lines 478-495: score the hook; leave on a pass, carry the result into
\* the next attempt on a miss, fall out of the loop on the last miss
ScoreAttempt ==
    /\ pc = "score"
    /\ EmbedStep(hook_text)
    /\ IF embedding_fails(hook_text)
       THEN /\ pc' = "error"
            /\ UNCHANGED <<score_result, best_seen, score_feedback, attempt>>
       ELSE LET res == score_hook(hook_text, min_hook_score,
                                  max_words_per_slide, similarities(hook_text))
            IN  /\ score_result' = res
                /\ best_seen' = record_best(best_seen, res.total, slides)
                /\ IF res.passed
                   THEN /\ pc' = "done"
                        /\ UNCHANGED <<score_feedback, attempt>>
                   ELSE IF attempt < max_attempts - 1
                   THEN /\ score_feedback' = Feedback(res, min_hook_score)
                        /\ attempt' = attempt + 1
                        /\ pc' = "build"
                   ELSE /\ pc' = "done"
                        /\ UNCHANGED <<score_feedback, attempt>>
    /\ UNCHANGED <<parseVars, hook_text, min_hook_score, max_words_per_slide,
                   embedding, embedding_status, hook_strategy, max_attempts,
                   prompt, slides, model_calls>>
    /\ UNCHANGED restVars

NextLoop == Start \/ BuildPrompt \/ CallModel \/ ParseReply \/ ScoreAttempt

SpecLoop == InitLoop /\ [][NextLoop]_vars

\* ------------------------------------------------- generated-image loops
\* what GeminiImageGenerator.generate_image can return: two different
\* images, or None for every failure it catches
ImageReplies == {"png_a", "png_b", NoImage}

ImageCall(k, ref, ret) == [slide |-> k, reference |-> ref, returned |-> ret]

InitImages ==
    /\ image_path \in {"generate", "_generate_gemini"}
    /\ num_prompts \in 1..MaxSlides
    /\ image_num_slides \in 1..MaxSlides
    /\ image_path = "generate" => image_num_slides = num_prompts
    /\ slide_index = 1
    /\ reference_image_bytes = NoImage
    /\ images = <<>>
    /\ image_calls = <<>>
    /\ image_result = ImageResult("running", 0)
    /\ IdleCore
    /\ IdleStock
    /\ IdleTail

\* generate(), lines 248-278: one iteration of the loop over image_prompts;
\* a falsy reply returns the error dict naming the slide
GenerateSlideImage ==
    /\ image_path = "generate"
    /\ image_result.status = "running"
    /\ slide_index <= num_prompts
    /\ \E image_bytes \in ImageReplies :
         /\ image_calls' = Append(image_calls,
                ImageCall(slide_index,
                          IF slide_index > 1 THEN reference_image_bytes ELSE NoImage,
                          image_bytes))
         /\ IF image_bytes # NoImage
            THEN /\ reference_image_bytes' =
                      IF slide_index = 1 THEN image_bytes ELSE reference_image_bytes
                 /\ images' = Append(images, image_bytes)
                 /\ slide_index' = slide_index + 1
                 /\ image_result' = IF slide_index = num_prompts
                                    THEN ImageResult("images", 0)
                                    ELSE image_result
            ELSE /\ image_result' = ImageResult("error", slide_index)
                 /\ UNCHANGED <<reference_image_bytes, images, slide_index>>
    /\ UNCHANGED <<image_path, num_prompts, image_num_slides>>
    /\ UNCHANGED <<parseVars, scoreVars, loopVars, stockVars, tailVars>>

\* _generate_gemini, lines 204-206: too few prompts, an empty list
TooFewPrompts ==
    /\ image_path = "_generate_gemini"
    /\ image_result.status = "running"
    /\ num_prompts < image_num_slides
    /\ image_result' = ImageResult("images", 0)
    /\ UNCHANGED <<image_path, num_prompts, image_num_slides, slide_index,
                   reference_image_bytes, images, image_calls>>
    /\ UNCHANGED <<parseVars, scoreVars, loopVars, stockVars, tailVars>>

\* _generate_gemini, lines 211-222: one iteration of the loop over
\* prompts[:num_slides]; a falsy reply is logged and the loop goes on
GeminiSlideImage ==
    /\ image_path = "_generate_gemini"
    /\ image_result.status = "running"
    /\ num_prompts >= image_num_slides
    /\ slide_index <= image_num_slides
    /\ \E img_bytes \in ImageReplies :
         /\ image_calls' = Append(image_calls,
                ImageCall(slide_index, reference_image_bytes, img_bytes))
         /\ IF img_bytes # NoImage
            THEN /\ images' = Append(images, img_bytes)
                 /\ reference_image_bytes' =
                      IF slide_index = 1 THEN img_bytes ELSE reference_image_bytes
            ELSE UNCHANGED <<images, reference_image_bytes>>
    /\ slide_index' = slide_index + 1
    /\ image_result' = IF slide_index = image_num_slides
                       THEN ImageResult("images", 0) ELSE image_result
    /\ UNCHANGED <<image_path, num_prompts, image_num_slides>>
    /\ UNCHANGED <<parseVars, scoreVars, loopVars, stockVars, tailVars>>

NextImages == GenerateSlideImage \/ TooFewPrompts \/ GeminiSlideImage

SpecImages == InitImages /\ [][NextImages]_vars

\* ------------------------------------------------------ stock-photo client
\* history["used_ids"][-50:], the slice download_photo keeps
KeepLast == 50

last_n(s, n) == IF Len(s) <= n THEN s ELSE SubSeq(s, Len(s) - n + 1, Len(s))

\* download_photo, lines 121-128: the id is appended unless it is there,
\* and a list longer than max_history is cut to its last 50 ids
track_photo(ids, cap, photo_id) ==
    IF photo_id \in Range(ids) THEN ids
    ELSE IF Len(ids) + 1 > cap THEN last_n(Append(ids, photo_id), KeepLast)
    ELSE Append(ids, photo_id)

is_fresh(ids, p) == p \notin Range(ids)

\* the photos of an answer that are not in the history
fresh_photos(answer, ids) == SelectSeq(answer, LAMBDA p : is_fresh(ids, p))

\* search_photos, lines 93-102: the fresh photos, all of them if none is
search_photos(answer, ids) ==
    IF fresh_photos(answer, ids) # <<>> THEN fresh_photos(answer, ids) ELSE answer

\* min(num_slides * 2, 80)
per_page(n) == IF n * 2 < 80 THEN n * 2 ELSE 80

\* line 255: the photos of the generic answer that are not selected yet
extend_photos(selected, answer) ==
    selected \o SelectSeq(answer, LAMBDA p : p \notin Range(selected))

\* ------------------------------------------------------- provider answers
PhotoPool == 1..MaxPhotos

RECURSIVE SeqOfSet(_)
\* the ids of a set in increasing order
SeqOfSet(S) ==
    IF S = {} THEN <<>>
    ELSE LET m == CHOOSE x \in S : \A y \in S : x <= y
         IN  <<m>> \o SeqOfSet(S \ {m})

\* what the provider can answer to a search asking for at most n photos
Answers(n) == {SeqOfSet(S) : S \in {T \in SUBSET PhotoPool : Cardinality(T) <= n}}

Query(s, f, h) == [strategy |-> s, fresh |-> f, had |-> h]

\* ---------------------------------------------------- stock-photo actions
InitStock ==
    /\ stock_pc = "topic"
    /\ stock_count \in 1..MaxCount
    /\ photos = <<>>
    /\ used_ids \in {<<>>, <<1>>, <<2, 1>>}
    /\ max_history = 50
    /\ history_file = IF used_ids = <<>> THEN NoFile
                      ELSE FileOf(History(used_ids, max_history))
    /\ photo_images = <<>>
    /\ download_index = 0
    /\ queries = <<>>
    /\ last_op = "none"
    /\ last_download = 0
    /\ IdleCore
    /\ IdleImages
    /\ IdleTail

\* strategy 1, line 230: search_photos raises on a non-200 answer
SearchTopic ==
    /\ stock_pc = "topic"
    /\ last_op' = "search"
    /\ \/ /\ stock_pc' = "raised"
          /\ queries' = Append(queries, Query("topic", 0, Len(photos)))
          /\ photos' = photos
       \/ \E answer \in Answers(per_page(stock_count)) :
            /\ photos' = search_photos(answer, used_ids)
            /\ queries' = Append(queries, Query("topic",
                              Len(fresh_photos(answer, used_ids)), Len(photos)))
            /\ stock_pc' = IF Len(photos') < stock_count THEN "fallback" ELSE "select"
    /\ UNCHANGED <<stock_count, used_ids, max_history, history_file,
                   photo_images, download_index, last_download>>
    /\ UNCHANGED <<parseVars, scoreVars, loopVars, imageVars, tailVars>>

\* strategy 2, lines 233-237: the answer replaces the photos found so far
SearchFallback ==
    /\ stock_pc = "fallback"
    /\ last_op' = "search"
    /\ \/ /\ stock_pc' = "raised"
          /\ queries' = Append(queries, Query("fallback", 0, Len(photos)))
          /\ photos' = photos
       \/ \E answer \in Answers(per_page(stock_count)) :
            /\ photos' = search_photos(answer, used_ids)
            /\ queries' = Append(queries, Query("fallback",
                              Len(fresh_photos(answer, used_ids)), Len(photos)))
            /\ stock_pc' = IF Len(photos') < stock_count THEN "generic" ELSE "select"
    /\ UNCHANGED <<stock_count, used_ids, max_history, history_file,
                   photo_images, download_index, last_download>>
    /\ UNCHANGED <<parseVars, scoreVars, loopVars, imageVars, tailVars>>

\* strategy 3, lines 240-255: the generic query, not filtered by the
\* history; a non-200 answer adds nothing
SearchGeneric ==
    /\ stock_pc = "generic"
    /\ last_op' = "search"
    /\ queries' = Append(queries, Query("generic", 0, Len(photos)))
    /\ \/ photos' = photos
       \/ \E answer \in Answers(80) : photos' = extend_photos(photos, answer)
    /\ stock_pc' = "select"
    /\ UNCHANGED <<stock_count, used_ids, max_history, history_file,
                   photo_images, download_index, last_download>>
    /\ UNCHANGED <<parseVars, scoreVars, loopVars, imageVars, tailVars>>

\* lines 257-263: no photo at all returns [], else the download loop starts
SelectPhotos ==
    /\ stock_pc = "select"
    /\ IF photos = <<>>
       THEN /\ stock_pc' = "returned"
            /\ download_index' = download_index
       ELSE /\ stock_pc' = "download"
            /\ download_index' = 1
    /\ UNCHANGED <<stock_count, photos, used_ids, max_history, history_file,
                   photo_images, queries, last_op, last_download>>
    /\ UNCHANGED <<parseVars, scoreVars, loopVars, imageVars, tailVars>>

\* the photos the download loop walks: photos[:num_slides]
selected_count == IF Len(photos) < stock_count THEN Len(photos) ELSE stock_count

\* lines 263-269 with download_photo and _save_history: one photo of
\* photos[:num_slides]; a failed download is logged and skipped, a failed
\* write of the history file is logged and ignored
DownloadPhoto ==
    /\ stock_pc = "download"
    /\ download_index <= selected_count
    /\ LET photo_id == photos[download_index]
       IN  \/ /\ last_op' = "get"
              /\ UNCHANGED <<used_ids, history_file, photo_images, last_download>>
           \/ /\ used_ids' = track_photo(used_ids, max_history, photo_id)
              /\ photo_images' = Append(photo_images, photo_id)
              /\ last_download' = photo_id
              /\ IF is_fresh(used_ids, photo_id)
                 THEN \/ /\ history_file' = FileOf(History(used_ids', max_history))
                         /\ last_op' = "write"
                      \/ /\ history_file' = history_file
                         /\ last_op' = "write_failed"
                 ELSE /\ history_file' = history_file
                      /\ last_op' = "get"
    /\ download_index' = download_index + 1
    /\ stock_pc' = IF download_index = selected_count THEN "returned" ELSE "download"
    /\ UNCHANGED <<stock_count, photos, max_history, queries>>
    /\ UNCHANGED <<parseVars, scoreVars, loopVars, imageVars, tailVars>>

\* generate(), line 218, with any image taken for enough
enough_images_any(list, n) == list # <<>>

\* generate(), line 218: not (not image_bytes_list or len(...) < num_slides)
enough_images(list, n) == list # <<>> /\ ~(Len(list) < n)

\* generate(), lines 212-220: the list _generate_pexels returned is taken,
\* or the request ends with "Failed to fetch Pexels photos"
CheckStockImages ==
    /\ stock_pc = "returned"
    /\ stock_pc' = IF enough_images(photo_images, stock_count) THEN "acquired"
                   ELSE "error"
    /\ UNCHANGED <<stock_count, photos, used_ids, max_history, history_file,
                   photo_images, download_index, queries, last_op, last_download>>
    /\ UNCHANGED <<parseVars, scoreVars, loopVars, imageVars, tailVars>>

NextStock ==
    \/ SearchTopic \/ SearchFallback \/ SearchGeneric \/ SelectPhotos
    \/ DownloadPhoto \/ CheckStockImages

SpecStock == InitStock /\ [][NextStock]_vars

\* ------------------------------------------------- dedup history, alone
\* the capacities a history file can carry: below, at and above 50
Capacities == {2, KeepLast, KeepLast + 2}

InitHistory ==
    /\ stock_pc = "history"
    /\ stock_count = 0
    /\ photos = <<>>
    /\ used_ids = <<>>
    /\ max_history \in Capacities
    /\ history_file \in {NoFile, FileOf(History(<<>>, max_history))}
    /\ photo_images = <<>>
    /\ download_index = 0
    /\ queries = <<>>
    /\ last_op = "none"
    /\ last_download = 0
    /\ IdleCore
    /\ IdleImages
    /\ IdleTail

\* one successful download_photo: of a photo never downloaded (ids grow in
\* download order; download_index is the newest) or of the last one again
TrackDownload ==
    /\ stock_pc = "history"
    /\ \E photo_id \in {download_index + 1} \cup ({last_download} \ {0}) :
         /\ photo_id <= MaxDownloads
         /\ used_ids' = track_photo(used_ids, max_history, photo_id)
         /\ last_download' = photo_id
         /\ download_index' = IF photo_id > download_index THEN photo_id
                              ELSE download_index
         /\ IF is_fresh(used_ids, photo_id)
            THEN \/ /\ history_file' = FileOf(History(used_ids', max_history))
                    /\ last_op' = "write"
                 \/ /\ history_file' = history_file
                    /\ last_op' = "write_failed"
            ELSE /\ history_file' = history_file
                 /\ last_op' = "get"
    /\ UNCHANGED <<stock_pc, stock_count, photos, max_history, photo_images, queries>>
    /\ UNCHANGED <<parseVars, scoreVars, loopVars, imageVars, tailVars>>

SpecHistory == InitHistory /\ [][TrackDownload]_vars

\* ------------------------------------------------------------ text layout
\* the numbers of _add_text_overlay, in pixels
SLIDE_HEIGHT == 1920
line_height == 95
hook_safe_top == 150
content_safe_top == 180
bottom_margin == 320
title_line_height == 100
title_spacing == 40
body_line_spacing == 55

max_of(a, b) == IF a >= b THEN a ELSE b
min_of(a, b) == IF a <= b THEN a ELSE b

safe_top(hook) == IF hook THEN hook_safe_top ELSE content_safe_top

\* safe_bottom = img_height - 320
safe_bottom(img_height) == img_height - bottom_margin

\* total_height = len(lines) * line_height
hook_height(lines) == lines * line_height

\* total_height = title_height + title_spacing + body_height
content_height(titles, bodies) ==
    titles * title_line_height + title_spacing + bodies * body_line_spacing

\* max(safe_top, min(centered, safe_bottom - total_height)), with
\* centered = (img_height - total_height) // 2
clamp_start(hook, img_height, height) ==
    max_of(safe_top(hook),
           min_of((img_height - height) \div 2, safe_bottom(img_height) - height))

\* ----------------------------------------------------- text layout actions
InitLayout ==
    /\ is_hook \in BOOLEAN
    /\ hook_lines \in 0..MaxHookLines
    /\ title_lines \in 0..MaxTitleLines
    /\ body_lines \in 0..MaxBodyLines
    /\ is_hook => title_lines = 0 /\ body_lines = 0
    /\ ~is_hook => hook_lines = 0
    /\ total_height = 0
    /\ start_y = 0
    /\ layout_pc = "wrapped"
    /\ IdleCore
    /\ IdleImages
    /\ IdleStock
    /\ IdleGen
    /\ IdleExt

\* _add_text_overlay after the wrapping: the height of the block and the
\* row of its first line
PlaceText ==
    /\ layout_pc = "wrapped"
    /\ total_height' = IF is_hook THEN hook_height(hook_lines)
                       ELSE content_height(title_lines, body_lines)
    /\ start_y' = clamp_start(is_hook, SLIDE_HEIGHT, total_height')
    /\ layout_pc' = "drawn"
    /\ UNCHANGED <<is_hook, hook_lines, title_lines, body_lines>>
    /\ UNCHANGED <<parseVars, scoreVars, loopVars, imageVars, stockVars, genVars, extVars>>

SpecLayout == InitLayout /\ [][PlaceText]_vars

\* --------------------------------------------------------------- generate()
\* a topic: its words, and whether it is written with capitals and with
\* punctuation
Topic(ws, up, pu) == [words |-> ws, upper |-> up, punct |-> pu]

\* SlugGenerator.generate: lower case, special characters dropped, the
\* words joined by hyphens (topics here are shorter than max_length)
slug(topic) == [words |-> topic.words]

\* f"{date}_{topic_slug}" under base_directory/year/month
DirOf(day, topic) == [date |-> day, slug |-> slug(topic)]

Request(t, f, n) == [topic |-> t, content_format |-> f, num_items |-> n]

File(d, k, i, c) == [dir |-> d, kind |-> k, k |-> i, by |-> c]

\* slide_01.png .. slide_NN.png, caption.txt, meta.json, carousel_data.json
artifact_files(d, n, c) ==
    {File(d, "slide", i, c) : i \in 1..n}
    \cup {File(d, k, 0, c) : k \in {"caption.txt", "meta.json", "carousel_data.json"}}

same_path(x, y) == x.dir = y.dir /\ x.kind = y.kind /\ x.k = y.k

\* open(path, 'w') and img.save(path): a file of the same path is replaced
write_files(fs, new) == {x \in fs : \A y \in new : ~same_path(x, y)} \cup new

\* the steps of generate() with the output directory made first
step_after_dir_first(step) ==
    CASE step = "validate" -> "content"
      [] step = "content" -> "mkdir"
      [] step = "mkdir" -> "images"
      [] step = "images" -> "write"
      [] OTHER -> "returned"

\* the steps of generate(), in the order of its numbered comments
step_after(step) ==
    CASE step = "validate" -> "content"
      [] step = "content" -> "images"
      [] step = "images" -> "mkdir"
      [] step = "mkdir" -> "write"
      [] OTHER -> "returned"

\* lines 164-171: the item count generate() works with
capped_items(fmt, n) ==
    IF fmt \in ClonedFormats THEN ClonedSlideCount
    ELSE IF n > 5 THEN 5
    ELSE n

\* ---------------------------------------------------------- generate inputs
Topics ==
    { Topic(<<>>, FALSE, FALSE), Topic(<<1, 2>>, FALSE, FALSE),
      Topic(<<1, 2>>, TRUE, TRUE), Topic(<<3>>, FALSE, FALSE) }

Requests ==
    { Request(t, f, n) : t \in Topics,
                         f \in {"habit_list", "scripts", "cloned", "unsupported"},
                         n \in {4, 5, 7} }

ShortObjectReply ==
    serialize(<<<<HookA>>, <<TipLine(1)>>, <<Ln("cta", 1, FALSE, 3)>>>>)

GenReplies == {TextReply(HookA), ObjectReply(HookA), ShortObjectReply}

\* --------------------------------------------------------- generate actions
InitGenerate ==
    /\ gen_pc = "idle"
    /\ request = NoRequest
    /\ gen_items = 0
    /\ gen_num_slides = 0
    /\ gen_images = 0
    /\ dirs = {}
    /\ files = {}
    /\ fs_before = Disk({}, {})
    /\ call_no = 0
    /\ today = 1
    /\ artifacts = <<>>
    /\ gen_result = "none"
    /\ IdleCore
    /\ IdleImages
    /\ IdleStock
    /\ IdleLayout
    /\ IdleExt

\* a generate() call arrives, on the day of the last one or later
CallGenerate ==
    /\ gen_pc \in {"idle", "returned", "raised"}
    /\ call_no < MaxCalls
    /\ request' \in Requests
    /\ today' \in today..MaxDay
    /\ call_no' = call_no + 1
    /\ fs_before' = Disk(dirs, files)
    /\ gen_items' = request'.num_items
    /\ gen_num_slides' = 0
    /\ gen_images' = 0
    /\ gen_result' = "none"
    /\ gen_pc' = "validate"
    /\ UNCHANGED <<dirs, files, artifacts>>
    /\ UNCHANGED <<parseVars, scoreVars, loopVars, imageVars, stockVars, layoutVars, extVars>>

\* lines 140-171: topic, format and item count are checked, the count capped
ValidateRequest ==
    /\ gen_pc = "validate"
    /\ IF request.topic.words = <<>>
       THEN /\ gen_result' = "topic_required"
            /\ gen_pc' = "raised"
            /\ gen_items' = gen_items
       ELSE IF request.content_format \notin Formats
       THEN /\ gen_result' = "invalid_format"
            /\ gen_pc' = "raised"
            /\ gen_items' = gen_items
       ELSE IF request.content_format \notin ClonedFormats
               /\ ~(5 <= request.num_items /\ request.num_items <= 10)
       THEN /\ gen_result' = "invalid_slide_count"
            /\ gen_pc' = "raised"
            /\ gen_items' = gen_items
       ELSE /\ gen_items' = capped_items(request.content_format, request.num_items)
            /\ gen_pc' = step_after(gen_pc)
            /\ gen_result' = gen_result
    /\ UNCHANGED <<request, gen_num_slides, gen_images, dirs, files, fs_before,
                   call_no, today, artifacts>>
    /\ UNCHANGED <<parseVars, scoreVars, loopVars, imageVars, stockVars, layoutVars, extVars>>

\* line 187, under the template strategy (one model call, no scoring): the
\* reply is parsed for gen_items items, or the call raises
GenerateContent ==
    /\ gen_pc = "content"
    /\ \/ /\ gen_result' = "content_failed"
          /\ gen_pc' = "raised"
          /\ gen_num_slides' = gen_num_slides
       \/ \E reply \in GenReplies, r \in 1..Len(CTA_OPTIONS) :
            LET res == parse_claude_response(reply, request.content_format,
                                             gen_items, r)
            IN  IF res.status = "ok"
                THEN /\ gen_num_slides' = Len(res.slides)
                     /\ gen_pc' = step_after(gen_pc)
                     /\ gen_result' = gen_result
                ELSE /\ gen_result' = "content_failed"
                     /\ gen_pc' = "raised"
                     /\ gen_num_slides' = gen_num_slides
    /\ UNCHANGED <<request, gen_items, gen_images, dirs, files, fs_before,
                   call_no, today, artifacts>>
    /\ UNCHANGED <<parseVars, scoreVars, loopVars, imageVars, stockVars, layoutVars, extVars>>

\* line 203: stock photos for the proven formats, generated images for the
\* legacy and the cloned ones
use_pexels(fmt) == fmt \in ProvenFormats /\ fmt \notin ClonedFormats

\* lines 194 and 231-242: the hook prompt and the prompts of the model's
\* array (k of them, whatever the number of slides); a cloned format with
\* template prompts (t of them) takes those, padded and then trimmed to the
\* slide count
image_prompt_count(fmt, num_slides, t, k) ==
    IF fmt \in ClonedFormats /\ t > 0
    THEN min_of(max_of(t, num_slides), num_slides)
    ELSE 1 + k

\* the images generate() asks for: one photo per slide, or one generated
\* image per prompt
images_wanted(fmt, num_slides, t, k) ==
    IF use_pexels(fmt) THEN num_slides
    ELSE image_prompt_count(fmt, num_slides, t, k)

\* lines 348-355: the paths of the returned "slides" list
returned_slides(d, num_slides) ==
    {[dir |-> d, kind |-> "slide", k |-> i] : i \in 1..num_slides}

\* the lengths of the model's array of scene descriptions: one short of the
\* slides after the hook, as many, one more
PromptCounts(num_slides) == {k \in (num_slides - 2)..num_slides : k >= 0}

\* lines 200-278: a short list of stock photos is an error, and so is the
\* first generated image that fails; the service delivers no image, one
\* image or every image asked for
AcquireImages ==
    /\ gen_pc = "images"
    /\ \E k \in PromptCounts(gen_num_slides), got \in {0, 1, gen_num_slides + 1} :
         LET wanted == images_wanted(request.content_format, gen_num_slides,
                                     ClonedImagePrompts, k)
         IN  /\ gen_images' = min_of(got, wanted)
             /\ IF got < wanted
                THEN /\ gen_result' = "error_images"
                     /\ gen_pc' = "returned"
                ELSE /\ gen_result' = gen_result
                     /\ gen_pc' = step_after(gen_pc)
    /\ UNCHANGED <<request, gen_items, gen_num_slides, dirs, files, fs_before,
                   call_no, today, artifacts>>
    /\ UNCHANGED <<parseVars, scoreVars, loopVars, imageVars, stockVars, layoutVars, extVars>>

\* lines 280-283 with _create_output_dir: mkdir(parents=True, exist_ok=True)
CreateOutputDir ==
    /\ gen_pc = "mkdir"
    /\ dirs' = dirs \cup {DirOf(today, request.topic)}
    /\ gen_pc' = step_after(gen_pc)
    /\ UNCHANGED <<request, gen_items, gen_num_slides, gen_images, files,
                   fs_before, call_no, today, artifacts, gen_result>>
    /\ UNCHANGED <<parseVars, scoreVars, loopVars, imageVars, stockVars, layoutVars, extVars>>

\* lines 285-342: one slide file per (image, slide) pair, then the caption,
\* the metadata and the carousel data
WriteArtifact ==
    /\ gen_pc = "write"
    /\ LET d == DirOf(today, request.topic)
           new == artifact_files(d, min_of(gen_images, gen_num_slides), call_no)
       IN  /\ files' = write_files(files, new)
           /\ artifacts' = Append(artifacts, [dir |-> d, files |-> new])
    /\ gen_result' = "ok"
    /\ gen_pc' = step_after(gen_pc)
    /\ UNCHANGED <<request, gen_items, gen_num_slides, gen_images, dirs,
                   fs_before, call_no, today>>
    /\ UNCHANGED <<parseVars, scoreVars, loopVars, imageVars, stockVars, layoutVars, extVars>>

NextGenerate ==
    \/ CallGenerate \/ ValidateRequest \/ GenerateContent \/ AcquireImages
    \/ CreateOutputDir \/ WriteArtifact

SpecGenerate == InitGenerate /\ [][NextGenerate]_vars

\* --------------------------------------------------- scoring an exemplar
\* a reference text: built in or from scoring_references, its place in the
\* list, and whether it holds an upper-case letter
Exemplar(c, d, k, up) == [custom |-> c, dim |-> d, k |-> k, capital |-> up]

\* REFERENCE_EXAMPLES: "the exact method I use to achieve results" and
\* "the framework I built to solve" hold a capital, no other exemplar does
builtin_capital(d, k) == d = "actionability" /\ k \in {4, 6}

\* self.reference_examples[dimension]: the custom exemplars first
exemplar_texts(d, customs) ==
    customs \o [k \in 1..reference_count(d) |-> Exemplar(FALSE, d, k, builtin_capital(d, k))]

\* str.lower()
lower(text) == [text EXCEPT !.capital = FALSE]

\* _similarity of the vectors _get_embedding holds for two texts: the same
\* text has one cached vector; two texts that differ only in case, and two
\* different texts, are as close as the service's vectors make them
cosine(a, b, sim) ==
    IF a = b THEN 100
    ELSE IF lower(a) = lower(b) THEN sim.variant
    ELSE sim.other

RECURSIVE max_similarity(_, _, _, _)
\* the loop of score_dimension over the exemplars, from max_similarity = 0.0
max_similarity(hook_emb_text, examples, sim, best) ==
    IF examples = <<>> THEN best
    ELSE LET s == cosine(hook_emb_text, Head(examples), sim)
         IN  max_similarity(hook_emb_text, Tail(examples), sim,
                            IF s > best THEN s ELSE best)

\* score_dimension(hook, dimension)
score_exemplar(hook, d, customs, sim) ==
    score_dimension(max_similarity(lower(hook), exemplar_texts(d, customs), sim, 0))

\* ------------------------------------------------------- exemplar inputs
\* cosine similarities in hundredths, on both sides of every band
SimilarityLevels == {19, 34, 44, 45, 97}

CustomExemplars(d) == {Exemplar(TRUE, d, 1, up) : up \in BOOLEAN}

\* the custom exemplars of the dimension, given the hook
customs_of(hook) == IF hook.custom THEN <<hook>> ELSE <<>>

\* ------------------------------------------------------ exemplar actions
InitExemplar ==
    /\ ex_dimension \in Range(Dimensions)
    /\ ex_hook \in Range(exemplar_texts(ex_dimension, <<>>)) \cup CustomExemplars(ex_dimension)
    /\ similarity \in [variant : SimilarityLevels, other : SimilarityLevels]
    /\ ex_score = 0
    /\ exemplarAlone

\* one call of score_dimension with the exemplar as the hook
ScoreExemplar ==
    /\ ex_score = 0
    /\ ex_score' = score_exemplar(ex_hook, ex_dimension, customs_of(ex_hook), similarity)
    /\ UNCHANGED <<ex_dimension, ex_hook, similarity>>
    /\ UNCHANGED exemplarFrame

SpecExemplar == InitExemplar /\ [][ScoreExemplar]_vars

\* ----------------------------------------------- service calls of generate()
\* how a call to an external service can end
Outcomes == {"ok", "timeout", "non_2xx", "exception"}

ServiceCall(svc, site, o) == [service |-> svc, site |-> site, outcome |-> o]

\* ---------------------------------------------------------- service actions
InitServices ==
    /\ svc_pc = "content"
    /\ svc_path \in {"generated", "stock"}
    /\ svc_log = <<>>
    /\ svc_fallbacks = {}
    /\ svc_result = "none"
    /\ serviceAlone

\* line 464 through LLMClient.chat_completion: the exception is logged and
\* raised again, and nothing in generate() catches it
ContentCall ==
    /\ svc_pc = "content"
    /\ \E o \in Outcomes :
         /\ svc_log' = Append(svc_log, ServiceCall("model", "content", o))
         /\ IF o = "ok"
            THEN /\ svc_pc' = "hook_scene"
                 /\ svc_result' = svc_result
            ELSE /\ svc_pc' = "done"
                 /\ svc_result' = "raised"
    /\ UNCHANGED <<svc_path, svc_fallbacks>>
    /\ UNCHANGED serviceFrame

\* _generate_hook_scene_prompt: any exception of the model call is caught
\* and the brand-anchor prompt returned
HookSceneCall ==
    /\ svc_pc = "hook_scene"
    /\ \E o \in Outcomes :
         /\ svc_log' = Append(svc_log, ServiceCall("model", "hook_scene", o))
         /\ svc_fallbacks' = IF o = "ok" THEN svc_fallbacks
                             ELSE svc_fallbacks \cup {"hook_scene"}
    /\ svc_pc' = "contextual"
    /\ UNCHANGED <<svc_path, svc_result>>
    /\ UNCHANGED serviceFrame

\* _generate_contextual_prompts: any exception is caught and the prompts
\* come from keyword matching
ContextualCall ==
    /\ svc_pc = "contextual"
    /\ \E o \in Outcomes :
         /\ svc_log' = Append(svc_log, ServiceCall("model", "contextual", o))
         /\ svc_fallbacks' = IF o = "ok" THEN svc_fallbacks
                             ELSE svc_fallbacks \cup {"contextual"}
    /\ svc_pc' = IF svc_path = "stock" THEN "search" ELSE "image"
    /\ UNCHANGED <<svc_path, svc_result>>
    /\ UNCHANGED serviceFrame

\* the image loop: generate_image returns None for a timeout, a non-200
\* answer and every exception, and generate() returns the error dict
SlideImageCall ==
    /\ svc_pc = "image"
    /\ \E o \in Outcomes :
         /\ svc_log' = Append(svc_log, ServiceCall("image", "image", o))
         /\ IF o = "ok"
            THEN /\ svc_pc' = "caption"
                 /\ svc_result' = svc_result
            ELSE /\ svc_pc' = "done"
                 /\ svc_result' = "error"
    /\ UNCHANGED <<svc_path, svc_fallbacks>>
    /\ UNCHANGED serviceFrame

\* search_photos: a non-200 answer raises RuntimeError, a timeout raises
\* from requests; _generate_pexels and generate() catch neither
StockSearchCall ==
    /\ svc_pc = "search"
    /\ \E o \in Outcomes :
         /\ svc_log' = Append(svc_log, ServiceCall("stock", "search", o))
         /\ IF o = "ok"
            THEN /\ svc_pc' = "download"
                 /\ svc_result' = svc_result
            ELSE /\ svc_pc' = "done"
                 /\ svc_result' = "raised"
    /\ UNCHANGED <<svc_path, svc_fallbacks>>
    /\ UNCHANGED serviceFrame

\* download_photo raises, _generate_pexels logs it and returns the shorter
\* list, generate() returns the error dict
StockDownloadCall ==
    /\ svc_pc = "download"
    /\ \E o \in Outcomes :
         /\ svc_log' = Append(svc_log, ServiceCall("stock", "download", o))
         /\ IF o = "ok"
            THEN /\ svc_pc' = "caption"
                 /\ svc_result' = svc_result
            ELSE /\ svc_pc' = "done"
                 /\ svc_result' = "error"
    /\ UNCHANGED <<svc_path, svc_fallbacks>>
    /\ UNCHANGED serviceFrame

\* _generate_caption: any exception is caught and the fallback caption
\* returned; the artifact is written and generate() returns its result
CaptionCall ==
    /\ svc_pc = "caption"
    /\ \E o \in Outcomes :
         /\ svc_log' = Append(svc_log, ServiceCall("model", "caption", o))
         /\ svc_fallbacks' = IF o = "ok" THEN svc_fallbacks
                             ELSE svc_fallbacks \cup {"caption"}
    /\ svc_pc' = "done"
    /\ svc_result' = "ok"
    /\ UNCHANGED svc_path
    /\ UNCHANGED serviceFrame

NextServices ==
    \/ ContentCall \/ HookSceneCall \/ ContextualCall \/ SlideImageCall
    \/ StockSearchCall \/ StockDownloadCall \/ CaptionCall

SpecServices == InitServices /\ [][NextServices]_vars

\* ------------------------------------------------ the generation command
\* how generate() can end for one item of the batch: a result, the error
\* dict (no "output_dir" key: KeyError at line 364) or an exception
ItemOutcomes == {"ok", "error_dict", "raised"}

item_failed(o) == o # "ok"

InitCli ==
    /\ cli_pc = "start"
    /\ cli_count \in 1..MaxBatch
    /\ cli_results = <<>>
    /\ output_dirs = 0
    /\ exit_status = -1
    /\ cliAlone

\* lines 301-318: invalid arguments, an account that does not load or a
\* missing API key end the process with sys.exit(1)
StartMain ==
    /\ cli_pc = "start"
    /\ \E ok \in BOOLEAN :
         IF ok
         THEN /\ cli_pc' = "construct"
              /\ exit_status' = exit_status
         ELSE /\ cli_pc' = "exited"
              /\ exit_status' = 1
    /\ UNCHANGED <<cli_count, cli_results, output_dirs>>
    /\ UNCHANGED cliFrame

\* lines 333-341: the constructor call is outside every try block, an
\* exception it raises ends the process with a traceback and status 1
ConstructGenerator ==
    /\ cli_pc = "construct"
    /\ \E ok \in BOOLEAN :
         IF ok
         THEN /\ cli_pc' = "loop"
              /\ exit_status' = exit_status
         ELSE /\ cli_pc' = "exited"
              /\ exit_status' = 1
    /\ UNCHANGED <<cli_count, cli_results, output_dirs>>
    /\ UNCHANGED cliFrame

\* lines 351-384: one turn of the loop; every exception of the item is
\* caught, printed and followed by continue
GenerateItem ==
    /\ cli_pc = "loop"
    /\ Len(cli_results) < cli_count
    /\ \E o \in ItemOutcomes :
         /\ cli_results' = Append(cli_results, o)
         /\ output_dirs' = IF item_failed(o) THEN output_dirs ELSE output_dirs + 1
    /\ UNCHANGED <<cli_pc, cli_count, exit_status>>
    /\ UNCHANGED cliFrame

\* lines 386-446: the summary is printed and main() returns; the module
\* ends after main(), the interpreter exits with status 0
FinishMain ==
    /\ cli_pc = "loop"
    /\ Len(cli_results) = cli_count
    /\ cli_pc' = "exited"
    /\ exit_status' = 0
    /\ UNCHANGED <<cli_count, cli_results, output_dirs>>
    /\ UNCHANGED cliFrame

NextCli == StartMain \/ ConstructGenerator \/ GenerateItem \/ FinishMain

SpecCli == InitCli /\ [][NextCli]_vars

\* ------------------------------------------------- the posts table (db.py)
\* the optional columns upsert_post takes, in the order of its loop
OptionalFields ==
    {"topic", "format", "hook_text", "hook_score", "slide_count",
     "content_pillar", "post_url", "published_at"}

\* None; the other values: a falsy one (0, 0.0 or '') and a truthy one
None == "None"
FieldValues == {"", "value"}

Accounts == {"acct1", "acct2"}
Platforms == {"tiktok", "instagram"}
PostIds == {"tt_1", "tt_2"}

\* the keyword arguments of a call: nothing, one column, a few, all
PassedFields ==
    { {}, {"topic"}, {"hook_score", "slide_count"},
      {"post_url", "published_at", "hook_text"}, OptionalFields }

CallArgs(a, p, pid, passed, v) ==
    [account_name |-> a, platform |-> p, post_id |-> pid,
     fields |-> [f \in OptionalFields |-> IF f \in passed THEN v ELSE None]]

\* SELECT * FROM posts WHERE post_id = ?
get_post(table, pid) == {r \in table : r.post_id = pid}

\* AUTOINCREMENT: one more than the largest id ever used; no row is deleted
next_id(table) == Cardinality(table) + 1

\* the INSERT branch: every column from the arguments
insert_row(table, args, now) ==
    table \cup {[id |-> next_id(table), account_name |-> args.account_name,
                 platform |-> args.platform, post_id |-> args.post_id,
                 fields |-> args.fields, created_at |-> now]}

\* the fields dict of the UPDATE branch: the pairs whose value is not None
update_fields_truthy(args) == {f \in OptionalFields : args.fields[f] \notin {None, ""}}

update_fields(args) == {f \in OptionalFields : args.fields[f] # None}

\* UPDATE posts SET ... WHERE post_id = ?
update_rows(table, args) ==
    { IF r.post_id = args.post_id
      THEN [r EXCEPT !.fields = [f \in OptionalFields |->
                IF f \in update_fields(args) THEN args.fields[f] ELSE @[f]]]
      ELSE r : r \in table }

upsert_post(table, args, now) ==
    IF get_post(table, args.post_id) # {}
    THEN IF update_fields(args) # {} THEN update_rows(table, args) ELSE table
    ELSE insert_row(table, args, now)

InitDb ==
    /\ posts = {}
    /\ posts_before = {}
    /\ db_call = <<>>
    /\ db_calls = 0
    /\ db_open = TRUE
    /\ dbAlone

UpsertPost ==
    /\ db_open
    /\ db_calls < MaxUpserts
    /\ \E a \in Accounts, p \in Platforms, pid \in PostIds,
          passed \in PassedFields, v \in FieldValues :
         LET args == CallArgs(a, p, pid, passed, v)
         IN  /\ posts' = upsert_post(posts, args, db_calls + 1)
             /\ db_call' = args
    /\ posts_before' = posts
    /\ db_calls' = db_calls + 1
    /\ UNCHANGED db_open
    /\ UNCHANGED dbFrame

SpecDb == InitDb /\ [][UpsertPost]_vars

\* --------------------------------------- approved recommendations (recommender.py)
RecIds == 1..MaxRecs

\* proposed_change texts: one that is not JSON, and JSON objects holding a
\* dict, a list and a scalar
Changes ==
    { [kind |-> "bad_json", key |-> "", value |-> ""],
      [kind |-> "dict", key |-> "format_weights", value |-> "step_guide"],
      [kind |-> "list", key |-> "top_pillars", value |-> "sleep"],
      [kind |-> "scalar", key |-> "optimal_slide_count", value |-> "7"],
      [kind |-> "scalar", key |-> "optimal_slide_count", value |-> "6"] }

\* the context apply_approved starts from when the file does not exist
default_context ==
    [exists |-> TRUE, has_list |-> TRUE, applied |-> <<>>,
     format_weights |-> {}, top_pillars |-> <<>>, optimal_slide_count |-> "5"]

\* a file written by someone else: the same keys without the list
context_without_list == [default_context EXCEPT !.has_list = FALSE]

\* _merge_change for one key of the change
merge_change(ctx, change) ==
    CASE change.kind = "dict" ->
           [ctx EXCEPT !.format_weights = @ \cup {change.value}]
      [] change.kind = "list" ->
           IF \E i \in 1..Len(ctx.top_pillars) : ctx.top_pillars[i] = change.value
           THEN ctx
           ELSE [ctx EXCEPT !.top_pillars = Append(@, change.value)]
      [] OTHER -> [ctx EXCEPT !.optimal_slide_count = change.value]

\* already_applied = {r["id"] for r in context.get("approved_recommendations", [])}
already_applied(ctx) ==
    IF ctx.has_list THEN {ctx.applied[i] : i \in 1..Len(ctx.applied)} ELSE {}

\* one turn of the loop over the approved rows: json.loads raises for a
\* text that is not JSON; without the list the append raises KeyError after
\* the merge, and both exceptions are caught and logged
apply_one(ctx, id, change, skip) ==
    IF id \in skip \/ change.kind = "bad_json" THEN ctx
    ELSE IF ctx.has_list
         THEN [merge_change(ctx, change) EXCEPT !.applied = Append(@, id)]
         ELSE merge_change(ctx, change)

merged_in_turn(ctx, id, change, skip) == ~(id \in skip \/ change.kind = "bad_json")

RECURSIVE apply_all(_, _, _, _)
apply_all(ctx, ids, changes, skip) ==
    IF ids = <<>> THEN ctx
    ELSE apply_all(apply_one(ctx, Head(ids), changes[Head(ids)], skip),
                   Tail(ids), changes, skip)

InitRec ==
    /\ proposed_change \in [RecIds -> Changes]
    /\ approved = <<>>
    /\ context \in {[exists |-> FALSE], default_context, context_without_list}
    /\ merge_count = [r \in RecIds |-> 0]
    /\ had_list = (context # context_without_list)
    /\ apply_calls = 0
    /\ recAlone

\* update_recommendation_status: approved_at is set to now for 'approved'
\* and to NULL for every other status
SetStatus ==
    /\ proposed_change # <<>>
    /\ \E r \in RecIds, s \in {"approved", "rejected"} :
         LET others == SelectSeq(approved, LAMBDA x : x # r)
         IN  /\ approved' = IF s = "approved" THEN Append(others, r) ELSE others
             /\ approved' # approved
    /\ UNCHANGED <<proposed_change, context, merge_count, had_list, apply_calls>>
    /\ UNCHANGED recFrame

ApplyApproved ==
    /\ proposed_change # <<>>
    /\ apply_calls < MaxApplies
    /\ LET ctx == IF context.exists THEN context ELSE default_context
           skip == already_applied(ctx)
       IN  /\ context' = apply_all(ctx, approved, proposed_change, skip)
           /\ merge_count' = [r \in RecIds |->
                 IF /\ \E i \in 1..Len(approved) : approved[i] = r
                    /\ merged_in_turn(ctx, r, proposed_change[r], skip)
                 THEN merge_count[r] + 1 ELSE merge_count[r]]
    /\ apply_calls' = apply_calls + 1
    /\ UNCHANGED <<proposed_change, approved, had_list>>
    /\ UNCHANGED recFrame

NextRec == SetStatus \/ ApplyApproved

SpecRec == InitRec /\ [][NextRec]_vars

\* ------------------------------------------------ word wrap of the overlay
SLIDE_WIDTH == 1080
padding_x == 70
padding_right == 120

\* int(img_width * 0.85)
hook_max_width == (SLIDE_WIDTH * 85) \div 100

content_max_width == SLIDE_WIDTH - padding_x - padding_right

\* rendered widths of a word in pixels: short, medium, long, and wider than
\* any line
WordWidths == {300, 450, 580, 950}

Word(i, w) == [id |-> i, w |-> w]

\* draw.textbbox of " ".join(line): the words and the spaces between them
text_width(line) ==
    IF line = <<>> THEN 0
    ELSE SeqSum([i \in 1..Len(line) |-> line[i].w]) + SpaceWidth * (Len(line) - 1)

\* text.split('\n'): the words before the first newline, between two
\* newlines, after the last
split_lines(words, breaks) ==
    [j \in 1..(Cardinality(breaks) + 1) |->
        SelectSeq(words, LAMBDA x : Cardinality({b \in breaks : b < x.id}) + 1 = j)]

\* one turn of "for word in words"
wrap_step_keep_word(st, word, max_width) ==
    LET cur == Append(st.current, word)
    IN  IF text_width(cur) > max_width
        THEN [lines |-> Append(st.lines, cur), current |-> <<>>]
        ELSE [lines |-> st.lines, current |-> cur]

wrap_step(st, word, max_width) ==
    LET cur == Append(st.current, word)
    IN  IF text_width(cur) > max_width
        THEN IF Len(cur) = 1
             THEN [lines |-> Append(st.lines, cur), current |-> <<>>]
             ELSE LET popped == SubSeq(cur, 1, Len(cur) - 1)
                  IN  [lines |-> IF popped # <<>> THEN Append(st.lines, popped)
                                 ELSE st.lines,
                       current |-> <<word>>]
        ELSE [lines |-> st.lines, current |-> cur]

RECURSIVE wrap_from(_, _, _)
wrap_from(st, words, max_width) ==
    IF words = <<>>
    THEN IF st.current # <<>> THEN Append(st.lines, st.current) ELSE st.lines
    ELSE wrap_from(wrap_step(st, Head(words), max_width), Tail(words), max_width)

wrap_text(words, max_width) ==
    wrap_from([lines |-> <<>>, current |-> <<>>], words, max_width)

\* the hook branch wraps text.split(); the content branch wraps the first
\* line as the title and the words of the other lines as the body
overlay_lines(words, breaks, hook) ==
    IF hook THEN wrap_text(words, hook_max_width)
    ELSE LET lines == split_lines(words, breaks)
             title_words == lines[1]
             body_words == concat_all(Tail(lines))
         IN  wrap_text(title_words, content_max_width)
                 \o wrap_text(body_words, content_max_width)

InitWrap ==
    /\ wrap_pc = "input"
    /\ \E n \in 0..MaxWords :
         /\ \E ws \in [1..n -> WordWidths] : wrap_words = [i \in 1..n |-> Word(i, ws[i])]
         /\ wrap_breaks \in {bs \in SUBSET (0..n) : Cardinality(bs) < MaxTextLines}
    /\ wrap_is_hook \in BOOLEAN
    /\ wrapped = <<>>
    /\ wrapAlone

AddTextOverlay ==
    /\ wrap_pc = "input"
    /\ wrapped' = overlay_lines(wrap_words, wrap_breaks, wrap_is_hook)
    /\ wrap_pc' = "done"
    /\ UNCHANGED <<wrap_words, wrap_breaks, wrap_is_hook>>
    /\ UNCHANGED wrapFrame

SpecWrap == InitWrap /\ [][AddTextOverlay]_vars

\* ================================================================== claims
\* the attempt limit as the claim states it
claimed_limit ==
    IF hook_strategy # "viral" THEN 1
    ELSE IF content_format \in {"scripts", "boring_habits", "how_to"} THEN 3
    ELSE 10

\* C1: one content-generation call issues at most max_attempts model calls
\* (1 when the strategy is not viral, 3 for scripts, boring_habits and
\* how_to, 10 for every other format); the calls are issued one after
\* another, each only when every earlier attempt has been parsed and
\* scored, and none after an attempt whose hook passed the gate.
C1_BoundedSequentialCalls ==
    /\ [](model_calls <= claimed_limit)
    /\ [][model_calls' # model_calls
            => /\ model_calls' = model_calls + 1
               /\ model_calls = attempt
               /\ pc = "call"
               /\ ~score_result.passed]_vars

\* a viral habit_list call that used all ten attempts without a pass
C1_Witness_TenCalls ==
    /\ pc = "done"
    /\ hook_strategy = "viral"
    /\ content_format = "habit_list"
    /\ model_calls = 10
    /\ ~score_result.passed

\* the total _score_hook gives the hook of a slide list
hook_total(ss) ==
    score_hook(ss[1], min_hook_score, max_words_per_slide, similarities(ss[1])).total

\* the loop ran out of attempts without a pass
exhausted ==
    /\ pc = "done"
    /\ hook_strategy = "viral"
    /\ ~score_result.passed

\* C2: when every attempt of the retry loop misses the gate, the slides the
\* call returns are those of an attempt with the highest hook score of
\* all attempts made in the call.
C2_ProceedsWithBest ==
    exhausted => hook_total(slides) = best_seen.total

\* the warning the claim expects in the prompt that follows a miss
expected_warning ==
    [given |-> TRUE, total |-> score_result.total, min_score |-> min_hook_score,
     feedback |-> score_result.feedback]

\* C3: for every format, cloned formats included, when a model call is
\* about to be issued after a missed attempt, the prompt already built
\* for it holds the score and the feedback lines of that attempt.
C3_FeedbackInNextPrompt ==
    (pc = "call" /\ attempt > 0) => prompt.retry_warning = expected_warning

\* C3 for the five built-in formats only
C3_FeedbackBuiltin ==
    content_format \in BuiltinFormats => C3_FeedbackInNextPrompt

\* C4: a hook of more than max_words whitespace-separated words is scored
\* total 0, grade F, passed = false, whatever min_score is (0 included),
\* and no text is posted to the embedding endpoint for it.
C4_WordLimitGate ==
    (pc \in {"scored", "error"} /\ word_count(hook_text) > max_words_per_slide)
        => /\ pc = "scored"
           /\ score_result.total = 0
           /\ score_result.grade = "F"
           /\ score_result.passed = FALSE
           /\ embed_requests = {}

\* an over-long hook scored with min_score 0, a cold cache and the endpoint
\* answering 500
C4_Witness_OverLimit ==
    /\ pc = "scored"
    /\ word_count(hook_text) > max_words_per_slide
    /\ min_hook_score = 0
    /\ embedding_status = 500
    /\ embed_cache = {}
    /\ score_result.total = 0

HeuristicResults ==
    {parse_heuristic(content_text.lines, content_format, num_items, r) :
        r \in 1..Len(CTA_OPTIONS)}

\* the reply went through the text parsing below the structured path
took_heuristic ==
    \/ ~uses_structured(content_format)
    \/ parse_structured(content_text).status = "fallback"

any_placeholder(ss) ==
    \E i \in 1..Len(ss) : has_placeholder_text(ss[i])

\* C5: for every raw text and every expected_item_count the heuristic
\* parser returns exactly expected_item_count + 2 slides.
C5_HeuristicSlideCount ==
    (phase = "parsed" /\ took_heuristic)
        => /\ parsed.status = "ok"
           /\ Len(parsed.slides) = num_items + 2

\* padding happened (too few items found) on a text of full length
C5_Witness_Padded ==
    /\ phase = "parsed"
    /\ took_heuristic
    /\ Len(content_text.lines) = MaxLines
    /\ num_items = MaxItems
    /\ any_placeholder(parsed.slides)
    /\ Len(parsed.slides) = num_items + 2

\* C6: in structured mode an array whose length is not
\* expected_item_count + 2 is not returned; the reply is parsed
\* heuristically instead.
C6_CountMismatchFallsBack ==
    ( /\ phase = "parsed"
      /\ uses_structured(content_format)
      /\ content_text.json = "obj"
      /\ content_text.slides_key = "list"
      /\ content_text.entries # <<>>
      /\ \A i \in 1..Len(content_text.entries) :
            /\ content_text.entries[i].has_text
            /\ ~has_placeholder_text(content_text.entries[i].text)
      /\ Len(content_text.entries) # num_items + 2 )
        => /\ parsed.status = "ok"
           /\ parsed.slides \in HeuristicResults
           /\ Len(parsed.slides) = num_items + 2

\* the structured reply yields no valid, fully populated slide list
invalid_structured(raw) ==
    \/ raw.json \in {"none", "bad"}
    \/ raw.slides_key # "list"
    \/ raw.entries = <<>>
    \/ \E i \in 1..Len(raw.entries) : ~raw.entries[i].has_text
    \/ \E i \in 1..Len(raw.entries) : has_placeholder_text(raw.entries[i].text)

\* C7: for a structured-mode format every reply that yields no valid,
\* fully populated slide list is parsed heuristically; the parser raises
\* nothing and returns no empty list.
C7_InvalidStructuredFallsBack ==
    ( /\ phase = "parsed"
      /\ uses_structured(content_format)
      /\ invalid_structured(content_text) )
        => /\ parsed.status = "ok"
           /\ parsed.slides # <<>>
           /\ parsed.slides \in HeuristicResults

\* C8: in every list the heuristic parser returns, slide 0 is the hook,
\* the last slide is a call-to-action and no interior slide is one, also
\* when fewer items than expected were found.
C8_SlidePositions ==
    (phase = "parsed" /\ took_heuristic /\ num_items >= 1)
        => LET s == parsed.slides
           IN  /\ s[1] = extract_hook(strip_meta(content_text.lines), content_format)
               /\ text_is_cta(s[Len(s)])
               /\ \A i \in 2..(Len(s) - 1) : ~text_is_cta(s[i])

\* the indices of the 'tip k:' lines of the reply
TipIndices(lines) == {i \in 1..Len(lines) : lines[i].kind = "tip"}

\* the k-th block of a well-formed reply: from its 'tip k:' line up to
\* the next one (or the closing line), blank lines dropped
ExpectedBlock(lines, k) ==
    LET first == CHOOSE i \in TipIndices(lines) : lines[i].id = k
        stop  == IF \E i \in TipIndices(lines) : lines[i].id = k + 1
                 THEN CHOOSE i \in TipIndices(lines) : lines[i].id = k + 1
                 ELSE Len(lines)
    IN  clean_text(SubSeq(lines, first, stop - 1))

\* C9: for N in 5..10 and a reply made of a hook line, N 'tip k:' blocks
\* and a closing line containing 'save this', the heuristic parser returns
\* N + 2 slides: the hook line (equal to no item line), the N blocks in
\* input order, each starting with 'tip', and the closing line.
C9_WellFormedReply ==
    phase = "parsed"
        => LET s     == parsed.slides
               lines == content_text.lines
           IN  /\ Len(s) = num_items + 2
               /\ s[1] = clean_text(<<lines[1]>>)
               /\ \A i \in TipIndices(lines) : s[1] # <<lines[i]>>
               /\ \A k \in 1..num_items :
                    /\ s[k + 1] = ExpectedBlock(lines, k)
                    /\ starts_with_prefix(s[k + 1][1])
               /\ s[num_items + 2] = clean_text(<<lines[Len(lines)]>>)

\* C9 restricted to hook lines that hold no call-to-action phrase
C9_WellFormedPlainHook ==
    ~is_cta(content_text.lines[1]) => C9_WellFormedReply

\* C10 as stated: parsing the serialization of any returned slide list
\* with the same format and count returns the same list.
C10_RoundTripAny ==
    phase = "reparsed"
        => /\ reparsed.status = "ok"
           /\ reparsed.slides = parsed.slides

\* C10 as amended: the round trip is the identity for the formats read in
\* structured mode, on a list none of whose texts holds a placeholder
\* pattern.
C10_RoundTripStructured ==
    ( /\ phase = "reparsed"
      /\ uses_structured(content_format)
      /\ ~any_placeholder(parsed.slides) )
        => /\ reparsed.status = "ok"
           /\ reparsed.slides = parsed.slides

\* a heuristically parsed, complete list went through the round trip
C10_Witness_RoundTrip ==
    /\ phase = "reparsed"
    /\ uses_structured(content_format)
    /\ took_heuristic
    /\ num_items >= 1
    /\ Len(parsed.slides) = num_items + 2
    /\ ~any_placeholder(parsed.slides)
    /\ reparsed.slides = parsed.slides

\* the call issued for slide 1, when it returned image bytes before call k
first_image_before(k) ==
    {j \in 1..(k - 1) : /\ image_calls[j].slide = 1
                        /\ image_calls[j].returned # NoImage}

\* C11: the generate_image call for slide 1 carries no reference image,
\* and every call for a later slide is issued after the call for slide 1
\* returned image bytes and carries exactly those bytes as its reference.
C11_ReferenceBarrier ==
    \A k \in 1..Len(image_calls) :
        /\ image_calls[k].slide = 1 => image_calls[k].reference = NoImage
        /\ image_calls[k].slide > 1 =>
             \E j \in first_image_before(k) :
                 image_calls[k].reference = image_calls[j].returned

\* C11 for the loop inside generate() only
C11_ReferenceBarrierGenerate ==
    image_path = "generate" => C11_ReferenceBarrier

\* C12: when generate_image fails or returns None for slide k, no call is
\* made for a later slide, no image list is returned, and the failure that
\* is surfaced names k.
C12_AbortAtFailedSlide ==
    \A k \in 1..Len(image_calls) :
        image_calls[k].returned = NoImage
            => /\ Len(image_calls) = k
               /\ image_result = ImageResult("error", image_calls[k].slide)

\* C12 for the loop inside generate() only
C12_AbortAtFailedSlideGenerate ==
    image_path = "generate" => C12_AbortAtFailedSlide


\* ------------------------------------------------------------------- C13
issued(s) == \E i \in 1..Len(queries) : queries[i].strategy = s

searches_over == stock_pc \in {"select", "download", "returned"}

\* the fallback query follows a topic query that found fewer than count
\* fresh photos
FallbackAfterFewFresh ==
    (searches_over /\ queries[1].fresh < stock_count) => issued("fallback")

\* the generic query follows two queries that left fewer than count photos
GenericAfterFewPhotos ==
    (searches_over /\ issued("fallback")
        /\ queries[Len(queries)].strategy # "generic"
        => Len(photos) >= stock_count)

\* an acquisition that returns for want of photos has tried the generic query
NoFailureBeforeGeneric ==
    (stock_pc = "returned" /\ photos = <<>>) => issued("generic")

\* the strategies come in order, each only while photos are short
NoLaterStrategyOnceEnough ==
    \A i \in 1..Len(queries) :
        /\ queries[i].strategy = <<"topic", "fallback", "generic">>[i]
        /\ i > 1 => queries[i].had < stock_count

\* C13: in stock mode the strategies are tried in the order topic,
\* fallback, generic; the fallback query is issued whenever the topic
\* query yields fewer than count fresh photos, the generic query whenever
\* the first two leave fewer than count photos, the acquisition does not
\* fail before the generic query, and no later strategy is issued once
\* count photos are available.
C13_StrategyEscalation ==
    /\ FallbackAfterFewFresh
    /\ GenericAfterFewPhotos
    /\ NoFailureBeforeGeneric
    /\ NoLaterStrategyOnceEnough

\* C13, the parts the code keeps: everything but the fallback after a topic
\* query whose photos are all in the history
C13_EscalationOnPhotoCount ==
    /\ GenericAfterFewPhotos
    /\ NoFailureBeforeGeneric
    /\ NoLaterStrategyOnceEnough


downloaded_ids == [i \in 1..download_index |-> i]

\* C15: after any sequence of successful downloads, for any capacity, the
\* history holds at most capacity ids; once more than capacity photos were
\* downloaded it holds exactly the capacity most recent ones.
C15_HistoryBound ==
    /\ Len(used_ids) <= max_history
    /\ download_index > max_history
         => used_ids = last_n(downloaded_ids, max_history)

\* C15 at the default capacity
C15_DefaultHistoryBound ==
    max_history = KeepLast =>
        /\ Len(used_ids) <= max_history
        /\ download_index > max_history
             => used_ids = last_n(downloaded_ids, max_history)

\* ------------------------------------------------------------------- C16
\* a photo whose bytes were returned is in the history
DownloadTracked == last_download # 0 => last_download \in Range(used_ids)

\* the history file holds what the history in memory holds
FileInStep ==
    last_download # 0 => history_file = FileOf(History(used_ids, max_history))

\* the acquisition returns right after the write of its last download
WriteIsLast == (stock_pc = "returned" /\ photo_images # <<>>) => last_op = "write"

\* C16: whenever download_photo returns bytes, the photo's id is in the
\* history and the history file equals the history in memory; within one
\* acquisition the write after the last successful download is the last
\* operation before the call returns.
C16_HistoryWrittenLast == DownloadTracked /\ FileInStep /\ WriteIsLast

\* ------------------------------------------------------------------- C17
\* the first row of the block is at or below the top safe margin
TopMarginKept ==
    layout_pc = "drawn" => start_y >= safe_top(is_hook)

\* the last row of the block is at or above the bottom safe margin
BottomMarginKept ==
    layout_pc = "drawn" => start_y + total_height <= SLIDE_HEIGHT - bottom_margin

\* C17: for slide text of any number of wrapped lines, on hook and on
\* content slides, the text block starts at or below the top safe margin
\* (150 px hooks, 180 px content) and ends at or above image height minus
\* the bottom safe margin (320 px).
C17_TextInSafeZone == TopMarginKept /\ BottomMarginKept

\* C17 for a block that is no higher than the safe zone
C17_FittingTextInSafeZone ==
    (layout_pc = "drawn" /\ total_height <= safe_bottom(SLIDE_HEIGHT) - safe_top(is_hook))
        => /\ start_y >= safe_top(is_hook)
           /\ start_y + total_height <= SLIDE_HEIGHT - bottom_margin

\* ------------------------------------------------------------------- C18
\* C18: when image acquisition fails in generate(), no output directory is
\* created and no slide image, caption, metadata or carousel-data file is
\* written for that request.
C18_NoArtifactOnFailedAcquisition ==
    gen_result = "error_images" =>
        /\ dirs = fs_before.dirs
        /\ files = fs_before.files

C18_Witness_FailedAfterSomeImages ==
    /\ gen_result = "error_images"
    /\ gen_images > 0
    /\ call_no = 2
    /\ files # {}

\* ------------------------------------------------------------------- C19
\* C19: for a built-in format, a successful generate() called with a
\* requested item count n in 5..10 yields exactly n + 2 slides.
C19_RequestedCountPlusTwo ==
    (/\ gen_result = "ok"
     /\ request.content_format \in BuiltinFormats
     /\ request.num_items \in 5..10)
        => gen_num_slides = request.num_items + 2

\* C19 for the text formats: the capped count plus two
C19_CappedCountPlusTwo ==
    (/\ gen_result = "ok"
     /\ request.content_format \in {"habit_list", "step_guide"})
        => gen_num_slides = min_of(request.num_items, 5) + 2

\* ------------------------------------------------------------------- C20
\* C20: a carousel artifact is never modified after it was written: any two
\* successful generate() calls, also for the same topic on the same day,
\* write to two different output directories, and the second leaves every
\* file of the first unchanged.
C20_ArtifactsImmutable ==
    \A i \in 1..Len(artifacts) :
        /\ artifacts[i].files \subseteq files
        /\ \A j \in 1..Len(artifacts) : i < j => artifacts[i].dir # artifacts[j].dir

\* C20 for calls that differ in slug or day
C20_OtherDirectoryUntouched ==
    \A i \in 1..Len(artifacts) :
        (\A j \in 1..Len(artifacts) : i < j => artifacts[i].dir # artifacts[j].dir)
            => artifacts[i].files \subseteq files


\* ------------------------------------------------------------------- C26
RECURSIVE collect_as_claimed(_, _, _)
\* item collection as C26 states it: a blank line ends the item exactly
\* when the next non-blank line is an item start or a call-to-action, the
\* first call-to-action or item start ends it, every other line is appended
collect_as_claimed(lines, j, acc) ==
    IF j > Len(lines) THEN [tip_lines |-> acc, j |-> j]
    ELSE IF is_blank(lines[j])
    THEN IF peek_ends_item(lines, j)
         THEN [tip_lines |-> acc, j |-> j]
         ELSE collect_as_claimed(lines, j + 1, acc)
    ELSE IF is_cta(lines[j]) \/ is_category_start(lines[j])
    THEN [tip_lines |-> acc, j |-> j]
    ELSE collect_as_claimed(lines, j + 1, Append(acc, lines[j]))

\* the lines the item loop walks
item_lines == strip_meta(content_text.lines)

ItemStarts == {i \in 1..Len(item_lines) : is_category_start(item_lines[i])}

\* C26: while the heuristic parser collects an item, a blank line ends the
\* item exactly when the next non-blank line is an item start or a
\* call-to-action, otherwise it is skipped and the following lines are
\* appended to the same item; collection also ends at the first non-blank
\* line that is a call-to-action or an item start.
C26_ItemCollection ==
    (phase = "parsed" /\ took_heuristic) =>
        \A i \in ItemStarts :
            collect_item(item_lines, i + 1, <<item_lines[i]>>)
                = collect_as_claimed(item_lines, i + 1, <<item_lines[i]>>)

\* C26 for a reply without a line that starts with 'slide' or '#'
C26_ItemCollectionNoMetaLine ==
    (phase = "parsed" /\ took_heuristic
        /\ \A i \in 1..Len(item_lines) : ~is_meta(item_lines[i])) =>
        \A i \in ItemStarts :
            collect_item(item_lines, i + 1, <<item_lines[i]>>)
                = collect_as_claimed(item_lines, i + 1, <<item_lines[i]>>)


\* ------------------------------------------------------------------- C27
\* photos holds the answer of the topic or of the fallback search
filtered_answer ==
    /\ stock_pc \in {"fallback", "generic", "select"}
    /\ queries # <<>>
    /\ queries[Len(queries)].strategy # "generic"

\* the photo the download loop takes next is in the history already
reuse_pending ==
    /\ stock_pc = "download"
    /\ download_index <= selected_count
    /\ ~is_fresh(used_ids, photos[download_index])

\* C27: a photo whose id is in the dedup history is selected for download
\* only through strategy 3, after strategies 1 and 2 both fell short;
\* strategies 1 and 2 never return a previously used photo.
C27_ReuseOnlyThroughGeneric ==
    /\ filtered_answer => \A i \in 1..Len(photos) : is_fresh(used_ids, photos[i])
    /\ reuse_pending => issued("generic")

\* C27, what the code keeps: strategies 1 and 2 hand out used photos only
\* when their answer holds no fresh one
C27_ReuseOnlyWhenNoneFresh ==
    (filtered_answer /\ \E i \in 1..Len(photos) : ~is_fresh(used_ids, photos[i]))
        => queries[Len(queries)].fresh = 0


\* ------------------------------------------------------------------- C23
\* C23: for each of the four dimensions, a hook whose exact string equals
\* one of that dimension's reference exemplars (built-in or custom) scores
\* 5 on that dimension.
C23_ExemplarScoresFive == ex_score # 0 => ex_score = 5

\* C23 for an exemplar without an upper-case letter
C23_LowerCaseExemplarScoresFive ==
    (ex_score # 0 /\ ~ex_hook.capital) => ex_score = 5


\* ------------------------------------------------------------------- C24
\* every attempt issues exactly one model call
OneModelCallPerAttempt ==
    /\ [](pc \in {"parse", "score"} => model_calls = attempt + 1)
    /\ [][model_calls' # model_calls
            => model_calls' = model_calls + 1 /\ model_calls = attempt]_vars

\* C24: every attempt of the hook-quality retry loop issues exactly one
\* model call and at most one request to the embedding service.
C24_OneCallOneEmbedding ==
    /\ OneModelCallPerAttempt
    /\ [](Cardinality(embed_requests) <= 1)

\* C24 once every exemplar is in the cache of _get_embedding
C24_OneEmbeddingWhenWarm ==
    /\ OneModelCallPerAttempt
    /\ [][(WarmCache \subseteq embed_cache /\ embed_requests' # embed_requests)
            => Cardinality(embed_requests') <= 1]_vars


\* ------------------------------------------------------------------- C21
service_failed == \E i \in 1..Len(svc_log) : svc_log[i].outcome # "ok"

\* no call site is entered twice
NoServiceRetry ==
    \A i, j \in 1..Len(svc_log) : svc_log[i].site = svc_log[j].site => i = j

\* C21: a timeout, a non-2xx response or an exception of the model,
\* image-synthesis or stock-photo service during generate() is neither
\* retried nor replaced by a fallback value inside the component that made
\* the call: it reaches the caller of generate() as a failure of the request.
C21_ServiceFailuresSurface ==
    /\ NoServiceRetry
    /\ svc_fallbacks = {}
    /\ (svc_pc = "done" /\ service_failed) => svc_result \in {"raised", "error"}

\* C21 for the content call, the image call and the stock-photo calls
C21_ContentAndImageFailuresSurface ==
    /\ NoServiceRetry
    /\ (svc_pc = "done"
        /\ \E i \in 1..Len(svc_log) :
             /\ svc_log[i].outcome # "ok"
             /\ svc_log[i].site \in {"content", "image", "search", "download"})
          => svc_result \in {"raised", "error"}


\* ------------------------------------------------------------------- C22
some_item_failed == \E i \in 1..Len(cli_results) : item_failed(cli_results[i])

C22_BatchRunsToEnd ==
    (cli_pc = "exited" /\ Len(cli_results) > 0)
        => /\ Len(cli_results) = cli_count
           /\ output_dirs = Cardinality({i \in 1..Len(cli_results) : ~item_failed(cli_results[i])})


\* ------------------------------------------------------------------- C25
OneRowPerPost == \A r1, r2 \in posts : r1.post_id = r2.post_id => r1 = r2

updated_existing == db_call # <<>> /\ get_post(posts_before, db_call.post_id) # {}

\* the row of the last call's post before and after the call
row_before == CHOOSE r \in posts_before : r.post_id = db_call.post_id
row_after == CHOOSE r \in posts : r.post_id = db_call.post_id

OptionalFieldsOverwritten ==
    \A f \in OptionalFields :
        row_after.fields[f] = IF db_call.fields[f] # None THEN db_call.fields[f]
                              ELSE row_before.fields[f]

OtherRowsKept ==
    {r \in posts : r.post_id # db_call.post_id}
        = {r \in posts_before : r.post_id # db_call.post_id}

\* C25: after any sequence of upsert_post calls the posts table holds
\* exactly one row per post_id, and an upsert for an existing post_id
\* overwrites exactly the fields passed as non-None (account_name and
\* platform are passed in every call) and leaves every other field of that
\* row unchanged.
C25_UpsertOverwritesPassedFields ==
    /\ OneRowPerPost
    /\ updated_existing =>
         /\ OptionalFieldsOverwritten
         /\ row_after.account_name = db_call.account_name
         /\ row_after.platform = db_call.platform
         /\ row_after.id = row_before.id
         /\ row_after.created_at = row_before.created_at
         /\ OtherRowsKept

\* C25 as amended: one row per post_id; an upsert for an existing post_id
\* overwrites exactly those of the eight optional columns passed as
\* non-None and leaves every other field of the row unchanged, account_name
\* and platform included, whatever the call passes for them.
C25_UpsertOverwritesOptionalFields ==
    /\ OneRowPerPost
    /\ \A pid \in PostIds :
         (db_call # <<>> /\ db_call.post_id = pid) => get_post(posts, pid) # {}
    /\ updated_existing =>
         /\ OptionalFieldsOverwritten
         /\ row_after.account_name = row_before.account_name
         /\ row_after.platform = row_before.platform
         /\ row_after.id = row_before.id
         /\ row_after.created_at = row_before.created_at
         /\ OtherRowsKept

\* an upsert of an existing row that writes a falsy value over one column,
\* keeps another column that holds a value, and names another account
C25_UpdatedExistingRow ==
    /\ updated_existing
    /\ db_call.account_name # row_before.account_name
    /\ \E f \in OptionalFields :
         db_call.fields[f] = "" /\ row_before.fields[f] = "value" /\ row_after.fields[f] = ""
    /\ \E f \in OptionalFields :
         db_call.fields[f] = None /\ row_before.fields[f] = "value" /\ row_after.fields[f] = "value"


\* ------------------------------------------------------------------- C30
\* C30: across any number of apply_approved calls for an account, the
\* proposed change of each approved recommendation is merged into the
\* performance context at most once, whatever the contents of the context
\* file before the first call (including a file that has no
\* approved_recommendations list).
C30_MergedAtMostOnce == \A r \in RecIds : merge_count[r] <= 1

\* C30 for a context file that is missing or holds the list
C30_MergedAtMostOnceWithList ==
    had_list => \A r \in RecIds : merge_count[r] <= 1


\* ------------------------------------------------------------------- C28
generate_succeeded == gen_pc = "returned" /\ gen_result = "ok"

slides_written ==
    {f \in artifacts[Len(artifacts)].files : f.kind = "slide"}

OneImagePerSlide ==
    /\ gen_images = gen_num_slides
    /\ Cardinality(slides_written) = gen_num_slides
    /\ \A p \in returned_slides(DirOf(today, request.topic), gen_num_slides) :
         \E f \in slides_written : f.dir = p.dir /\ f.k = p.k /\ f.by = call_no

\* C28: on every successful generate(), exactly one image is acquired for
\* each slide and each image is rendered exactly once: the number of slide
\* image files written equals the number of slides, and every path in the
\* returned slides list names a file that was written in this call.
C28_OneImagePerSlide == generate_succeeded => OneImagePerSlide

\* C28 for the formats that take stock photos and for a cloned format
\* whose template holds image prompts
C28_OnePhotoPerSlide ==
    (/\ generate_succeeded
     /\ \/ use_pexels(request.content_format)
        \/ request.content_format \in ClonedFormats) => OneImagePerSlide

\* what holds for every format: a slide file per (image, slide) pair
C28_SlideFilePerPair ==
    generate_succeeded
        => Cardinality(slides_written) = min_of(gen_images, gen_num_slides)


\* ------------------------------------------------------------------- C29
max_width_of(hook) == IF hook THEN hook_max_width ELSE content_max_width

\* C29: greedy word wrap in the renderer: for every input text and every
\* assignment of word widths, the wrapped lines read in order contain each
\* word of the input exactly once and in the original order, and every
\* wrapped line that holds more than one word is no wider than the maximum
\* line width (85% of the image width for hooks, image width minus 190 px
\* for content slides).
C29_WrapKeepsWordsAndWidth ==
    wrap_pc = "done" =>
        /\ concat_all(wrapped) = wrap_words
        /\ \A i \in 1..Len(wrapped) :
             Len(wrapped[i]) > 1 => text_width(wrapped[i]) <= max_width_of(wrap_is_hook)

\* a content slide with a newline in its text, wrapped to three lines or
\* more: one of several words, one holding a word wider than the line
C29_WrappedContentSlide ==
    /\ wrap_pc = "done"
    /\ ~wrap_is_hook
    /\ wrap_breaks # {}
    /\ Len(wrapped) >= 3
    /\ \E i \in 1..Len(wrapped) : Len(wrapped[i]) > 1
    /\ \E i \in 1..Len(wrapped) :
         Len(wrapped[i]) = 1 /\ text_width(wrapped[i]) > content_max_width

====
